---------------------------- MODULE Spec2Model ----------------------------
(***************************************************************************)
(* matidb: paged storage stack (disk manager, buffer pool, slotted page,   *)
(* row codec, catalog, executor).                                          *)
(*                                                                         *)
(* A page is an array of PAGE_SIZE bytes.  It is represented by the map    *)
(* from the offsets that hold a non-zero byte to that byte; every other    *)
(* offset of 0 .. PAGE_SIZE - 1 holds 0 (Byte, SetByte).  Strings and byte *)
(* slices are sequences of byte values.  Rc<RefCell<Page>> allocations are *)
(* modelled by `heap`, a map from an address to the page it holds; an Rc   *)
(* handle is an address.                                                   *)
(***************************************************************************)
EXTENDS Integers, Sequences, FiniteSets, TLC

VARIABLES
    file,           \* DiskManager.file: the database file, a sequence of pages
    next_page_id,   \* DiskManager.next_page_id
    pages,          \* BufferPool.pages: PageId -> address of its Rc<RefCell<Page>>
    heap,           \* live Rc<RefCell<Page>> allocations: address -> Page
    capacity,       \* BufferPool.capacity
    handles,        \* Rc clones held by the callers of the pool: [id, rc, stale]
    wrote,          \* history: PageId -> last byte stored through any handle
                    \* (SpecDisk: PageId -> the last page given to write_page)
    wrote_live,     \* history: PageId -> last byte stored through a handle of a
                    \*          page that was not evicted since the handle was made
                    \* (SpecDisk: the page ids given to write_page, in order)
    last,           \* the last operation (SpecDisk, SpecPool) or the last CREATE
                    \* TABLE or INSERT statement (Spec), and what it returned
    tables,         \* Database.tables: table name -> TableMetadata
    catalog_path,   \* Database.catalog_path
    catalog_file,   \* the text of the catalog file
    inserted,       \* history: table name -> the rows insert_tuple accepted, in order
    failed          \* history: some CREATE TABLE or INSERT statement returned Err

vars == <<file, next_page_id, pages, heap, capacity, handles, wrote, wrote_live, last,
          tables, catalog_path, catalog_file, inserted, failed>>

-----------------------------------------------------------------------------
(* Bounds of the model *)

MaxPages == 3       \* page ids that may be allocated: 0 .. MaxPages - 1
MaxPoolPages == 2   \* pages the callers of SpecPool create per session
MaxCapacity == 2    \* capacities tried: up to MaxCapacity
MaxHandles == 1     \* Rc clones the callers of the pool keep at a time
MaxDbCapacity == 1  \* capacities of the pools given to with_buffer_pool
MaxInsertRows == 2  \* value rows of one INSERT statement
MaxRows == 3        \* rows insert_tuple accepts in all

PageIds == 0 .. (MaxPages - 1)

-----------------------------------------------------------------------------
(* storage.rs *)

PAGE_SIZE == 4096

\* Page::new: data = [0; PAGE_SIZE]
Page_new == << >>

\* page.data[o]
Byte(page, o) == IF o \in DOMAIN page THEN page[o] ELSE 0

\* page.data[o] = v
SetByte(page, o, v) ==
    IF v = 0 THEN [x \in DOMAIN page \ {o} |-> page[x]]
    ELSE [x \in DOMAIN page \cup {o} |-> IF x = o THEN v ELSE page[x]]

\* file.metadata()?.len(): the file holds whole pages, written by write_page
file_len(f) == Len(f) * PAGE_SIZE

\* DiskManager::open: next_page_id is the number of whole pages in the file
DiskManager_open(f) == file_len(f) \div PAGE_SIZE

\* read_exact fails when the page lies beyond the end of the file
read_page(f, page_id) ==
    IF page_id < Len(f)
    THEN [ok |-> TRUE, page |-> f[page_id + 1]]
    ELSE [ok |-> FALSE, page |-> Page_new]

\* write_all at the current position instead of at the page's offset
write_page_no_seek(f, page_id, page) == Append(f, page)

\* seek + write_all: a write beyond the end of the file zero-fills the gap
write_page(f, page_id, page) ==
    [i \in 1 .. (IF page_id + 1 > Len(f) THEN page_id + 1 ELSE Len(f)) |->
        IF i = page_id + 1 THEN page
        ELSE IF i <= Len(f) THEN f[i]
        ELSE Page_new]

\* allocate_page returns the id; the counter after it is allocate_page_next
allocate_page(npid) == npid
\* the counter left as it was
allocate_page_next_same(npid) == npid
allocate_page_next(npid) == npid + 1

-----------------------------------------------------------------------------
(* buffer.rs.  A pool value bp is the record                               *)
(*   [file, next_page_id, pages, heap, capacity].                          *)
(* `ord` is the iteration order of the HashMap `pages` at the time of the  *)
(* call: a permutation of the page ids; keys().next() is its first         *)
(* resident element.                                                       *)

\* (the ids from MaxPages on, which only a step beyond the page bound
\* allocates, come last)
OrderLen == MaxPages + MaxInsertRows

Orders ==
    {[i \in 1 .. OrderLen |-> IF i <= MaxPages THEN o[i] ELSE i - 1] :
        o \in {p \in [1 .. MaxPages -> PageIds] :
                    \A i, j \in 1 .. MaxPages : p[i] = p[j] => i = j}}

\* the orders to try for an operation that may install `grow` pages before
\* its last eviction: they all act alike unless an eviction has two or more
\* resident pages to choose from
HashOrders(bp, grow) ==
    IF /\ bp.capacity >= 2
       /\ Cardinality(DOMAIN bp.pages) + grow >= bp.capacity
    THEN Orders
    ELSE {[i \in 1 .. OrderLen |-> i - 1]}

Remove(f, k) == [x \in DOMAIN f \ {k} |-> f[x]]
Put(f, k, v) == [x \in DOMAIN f \cup {k} |-> IF x = k THEN v ELSE f[x]]

\* Rc::new: a fresh address
Rc_new(h) == CHOOSE a \in 0 .. Cardinality(DOMAIN h) : a \notin DOMAIN h

BufferPool_new(f, cap) ==
    [file |-> f, next_page_id |-> DiskManager_open(f),
     pages |-> << >>, heap |-> << >>, capacity |-> cap]

keys_next(bp, ord) ==
    ord[CHOOSE i \in 1 .. OrderLen :
            /\ ord[i] \in DOMAIN bp.pages
            /\ \A j \in 1 .. (i - 1) : ord[j] \notin DOMAIN bp.pages]

\* mutant: the evicted page is dropped without being written
evict_page_no_write(bp, page_id) ==
    IF page_id \in DOMAIN bp.pages
    THEN [bp EXCEPT !.pages = Remove(bp.pages, page_id)]
    ELSE bp

evict_page(bp, page_id) ==
    IF page_id \in DOMAIN bp.pages
    THEN [bp EXCEPT !.pages = Remove(bp.pages, page_id),
                    !.file = write_page(bp.file, page_id, bp.heap[bp.pages[page_id]])]
    ELSE bp

\* mutant: evicts whenever a page is resident
evict_if_needed_early(bp, ord) ==
    IF DOMAIN bp.pages # {}
    THEN evict_page(bp, keys_next(bp, ord))
    ELSE bp

\* mutant: evicts only once the pool is over capacity
evict_if_needed_late(bp, ord) ==
    IF Cardinality(DOMAIN bp.pages) > bp.capacity /\ DOMAIN bp.pages # {}
    THEN evict_page(bp, keys_next(bp, ord))
    ELSE bp

evict_if_needed(bp, ord) ==
    IF Cardinality(DOMAIN bp.pages) >= bp.capacity /\ DOMAIN bp.pages # {}
    THEN evict_page(bp, keys_next(bp, ord))
    ELSE bp

\* mutant: a cache hit hands out a copy of the cached page
fetch_page_copy_out(bp, page_id, ord) ==
    IF page_id \in DOMAIN bp.pages
    THEN LET a == Rc_new(bp.heap)
         IN  [bp |-> [bp EXCEPT !.heap = Put(bp.heap, a, bp.heap[bp.pages[page_id]])],
              ok |-> TRUE, rc |-> a]
    ELSE LET b1 == evict_if_needed(bp, ord)
             rd == read_page(b1.file, page_id)
             a  == Rc_new(b1.heap)
         IN  IF rd.ok
             THEN [bp |-> [b1 EXCEPT !.heap = Put(b1.heap, a, rd.page),
                                     !.pages = Put(b1.pages, page_id, a)],
                   ok |-> TRUE, rc |-> a]
             ELSE [bp |-> b1, ok |-> FALSE, rc |-> a]

\* mutant: the page is read before room is made for it
fetch_page_read_first(bp, page_id, ord) ==
    IF page_id \in DOMAIN bp.pages
    THEN [bp |-> bp, ok |-> TRUE, rc |-> bp.pages[page_id]]
    ELSE LET rd == read_page(bp.file, page_id)
             b1 == evict_if_needed(bp, ord)
             a  == Rc_new(b1.heap)
         IN  IF rd.ok
             THEN [bp |-> [b1 EXCEPT !.heap = Put(b1.heap, a, rd.page),
                                     !.pages = Put(b1.pages, page_id, a)],
                   ok |-> TRUE, rc |-> a]
             ELSE [bp |-> bp, ok |-> FALSE, rc |-> a]

\* fetch_page returns [bp, ok, rc]: the pool afterwards and the handle
fetch_page(bp, page_id, ord) ==
    IF page_id \in DOMAIN bp.pages
    THEN [bp |-> bp, ok |-> TRUE, rc |-> bp.pages[page_id]]
    ELSE LET b1 == evict_if_needed(bp, ord)
             rd == read_page(b1.file, page_id)
             a  == Rc_new(b1.heap)
         IN  IF rd.ok
             THEN [bp |-> [b1 EXCEPT !.heap = Put(b1.heap, a, rd.page),
                                     !.pages = Put(b1.pages, page_id, a)],
                   ok |-> TRUE, rc |-> a]
             ELSE [bp |-> b1, ok |-> FALSE, rc |-> a]

\* mutant: the new page is written to the file when it is created
create_page_write_through(bp, ord) ==
    LET b1  == evict_if_needed(bp, ord)
        pid == allocate_page(b1.next_page_id)
        a   == Rc_new(b1.heap)
    IN  [bp |-> [b1 EXCEPT !.next_page_id = allocate_page_next(b1.next_page_id),
                           !.heap = Put(b1.heap, a, Page_new),
                           !.pages = Put(b1.pages, pid, a),
                           !.file = write_page(b1.file, pid, Page_new)],
         page_id |-> pid, rc |-> a]

\* create_page returns [bp, page_id, rc]
create_page(bp, ord) ==
    LET b1  == evict_if_needed(bp, ord)
        pid == allocate_page(b1.next_page_id)
        a   == Rc_new(b1.heap)
    IN  [bp |-> [b1 EXCEPT !.next_page_id = allocate_page_next(b1.next_page_id),
                           !.heap = Put(b1.heap, a, Page_new),
                           !.pages = Put(b1.pages, pid, a)],
         page_id |-> pid, rc |-> a]

RECURSIVE flush_pages(_, _, _)
flush_pages(f, bp, ids) ==
    IF ids = {} THEN f
    ELSE LET id == CHOOSE x \in ids : TRUE
         IN  flush_pages(write_page(f, id, bp.heap[bp.pages[id]]), bp, ids \ {id})

\* mutant: stops after the first resident page
flush_all_first_only(bp) ==
    IF DOMAIN bp.pages = {} THEN bp
    ELSE LET id == CHOOSE x \in DOMAIN bp.pages : \A y \in DOMAIN bp.pages : x <= y
         IN  [bp EXCEPT !.file = write_page(bp.file, id, bp.heap[bp.pages[id]])]

flush_all(bp) == [bp EXCEPT !.file = flush_pages(bp.file, bp, DOMAIN bp.pages)]

\* An Rc allocation is freed when neither the pool nor a caller holds it
Rc_drop(bp, held) ==
    [bp EXCEPT !.heap = [a \in {x \in DOMAIN bp.heap :
                                  \/ \E id \in DOMAIN bp.pages : bp.pages[id] = x
                                  \/ x \in held} |-> bp.heap[a]]]

-----------------------------------------------------------------------------
(* slotted_page.rs.  u16 and u32 fields are little-endian.  A u32 is kept   *)
(* as the 32-bit two's complement integer with the same bits, so u32::MAX   *)
(* is -1 and every page id below 2^31 is itself.                            *)

HEADER_SIZE == 8
SLOT_SIZE == 4
NO_NEXT_PAGE == 0 - 1

write_u16(data, offset, value) ==
    SetByte(SetByte(data, offset, value % 256), offset + 1, (value \div 256) % 256)

read_u16(data, offset) == Byte(data, offset) + 256 * Byte(data, offset + 1)

write_u32(data, offset, value) ==
    SetByte(SetByte(SetByte(SetByte(data,
        offset, value % 256),
        offset + 1, (value \div 256) % 256),
        offset + 2, (value \div 65536) % 256),
        offset + 3, (value \div 16777216) % 256)

read_u32(data, offset) ==
    LET b3 == Byte(data, offset + 3)
    IN  Byte(data, offset) + 256 * Byte(data, offset + 1) + 65536 * Byte(data, offset + 2)
        + 16777216 * (IF b3 >= 128 THEN b3 - 256 ELSE b3)

num_slots(page) == read_u16(page, 0)
set_num_slots(page, num) == write_u16(page, 0, num)
free_space_pointer(page) == read_u16(page, 2)
set_free_space_pointer(page, ptr) == write_u16(page, 2, ptr)
next_page_id_of(page) == read_u32(page, 4)
\* the id written over the first four bytes of the header
set_next_page_id_at_start(page, page_id) == write_u32(page, 0, page_id)
set_next_page_id(page, page_id) == write_u32(page, 4, page_id)

init(page) ==
    set_next_page_id(set_free_space_pointer(set_num_slots(page, 0), PAGE_SIZE), NO_NEXT_PAGE)

\* the slot array taken to end with the header
slots_end_header_only(page) == HEADER_SIZE

slots_end(page) == HEADER_SIZE + num_slots(page) * SLOT_SIZE

\* one byte less than is free
free_space_one_less(page) ==
    LET data_start == free_space_pointer(page)
    IN  IF data_start > slots_end(page) + 1 THEN data_start - slots_end(page) - 1 ELSE 0

free_space(page) ==
    LET data_start == free_space_pointer(page)
    IN  IF data_start > slots_end(page) THEN data_start - slots_end(page) ELSE 0

\* page.data[offset .. offset + len].copy_from_slice(bytes)
copy_from_slice(page, offset, bytes) ==
    LET range == offset .. (offset + Len(bytes) - 1)
        set   == {offset + i - 1 : i \in {j \in 1 .. Len(bytes) : bytes[j] # 0}}
    IN  [x \in (DOMAIN page \ range) \cup set |->
            IF x \in range THEN bytes[x - offset + 1] ELSE page[x]]

\* add_tuple returns [ok, page, slot_id]; "Page full" leaves the page as it was
add_tuple(page, tuple_data) ==
    LET tuple_len       == Len(tuple_data)
        required_space  == SLOT_SIZE + tuple_len
        new_data_offset == free_space_pointer(page) - tuple_len
        slot_id         == num_slots(page)
        slot_offset     == HEADER_SIZE + slot_id * SLOT_SIZE
        p1 == copy_from_slice(page, new_data_offset, tuple_data)
        p2 == write_u16(p1, slot_offset, new_data_offset)
        p3 == write_u16(p2, slot_offset + 2, tuple_len)
        p4 == set_num_slots(p3, slot_id + 1)
        p5 == set_free_space_pointer(p4, new_data_offset)
    IN  IF free_space(page) < required_space
        THEN [ok |-> FALSE, page |-> page, slot_id |-> 0]
        ELSE [ok |-> TRUE, page |-> p5, slot_id |-> slot_id]

\* get_tuple returns [some, bytes]
get_tuple(page, slot_id) ==
    IF slot_id >= num_slots(page)
    THEN [some |-> FALSE, bytes |-> << >>]
    ELSE LET slot_offset == HEADER_SIZE + slot_id * SLOT_SIZE
             data_offset == read_u16(page, slot_offset)
             data_length == read_u16(page, slot_offset + 2)
         IN  [some |-> TRUE,
              bytes |-> [i \in 1 .. data_length |-> Byte(page, data_offset + i - 1)]]

-----------------------------------------------------------------------------
(* database.rs: values and the row codec.  A Value is [tag, n], [tag, s] or *)
(* [tag, b]; a Row is the sequence of its values.                           *)

Long(n) == [tag |-> "Long", n |-> n]
Text(s) == [tag |-> "Text", s |-> s]
Bool(b) == [tag |-> "Bool", b |-> b]

\* An i64 is the record [hi, lo] of its two 32-bit words, each kept as the
\* 32-bit two's complement integer with the same bits.  i64_of(n) is the i64
\* whose value is the (32-bit) integer n.
i64_of(n) == [hi |-> IF n < 0 THEN 0 - 1 ELSE 0, lo |-> n]

\* i64::MIN = 0x8000000000000000 and i64::MAX = 0x7fffffffffffffff
I64_MIN == [hi |-> (0 - 2147483647) - 1, lo |-> 0]
I64_MAX == [hi |-> 2147483647, lo |-> 0 - 1]

\* four little-endian bytes read as a 32-bit word
i32_from_le_bytes(b) ==
    b[1] + 256 * b[2] + 65536 * b[3] + 16777216 * (IF b[4] >= 128 THEN b[4] - 256 ELSE b[4])

\* the low word alone, sign-extended to eight bytes
i64_to_le_bytes_low_word(n) ==
    [k \in 1 .. 8 |->
        IF k = 1 THEN n.lo % 256
        ELSE IF k = 2 THEN (n.lo \div 256) % 256
        ELSE IF k = 3 THEN (n.lo \div 65536) % 256
        ELSE IF k = 4 THEN (n.lo \div 16777216) % 256
        ELSE IF n.lo < 0 THEN 255 ELSE 0]

\* i64::to_le_bytes
i64_to_le_bytes(n) ==
    [k \in 1 .. 8 |->
        IF k = 1 THEN n.lo % 256
        ELSE IF k = 2 THEN (n.lo \div 256) % 256
        ELSE IF k = 3 THEN (n.lo \div 65536) % 256
        ELSE IF k = 4 THEN (n.lo \div 16777216) % 256
        ELSE IF k = 5 THEN n.hi % 256
        ELSE IF k = 6 THEN (n.hi \div 256) % 256
        ELSE IF k = 7 THEN (n.hi \div 65536) % 256
        ELSE (n.hi \div 16777216) % 256]

\* i64::from_le_bytes
i64_from_le_bytes(b) ==
    [hi |-> i32_from_le_bytes(SubSeq(b, 5, 8)), lo |-> i32_from_le_bytes(SubSeq(b, 1, 4))]

u32_to_le_bytes(n) ==
    <<n % 256, (n \div 256) % 256, (n \div 65536) % 256, (n \div 16777216) % 256>>

\* the length header ignored
u32_from_le_bytes_zero(b) == 0

\* u32::from_le_bytes as usize; a length of 2^31 or more is kept as 2^31 - 1,
\* which exceeds every buffer length just the same
u32_from_le_bytes(b) ==
    IF b[4] >= 128 THEN 2147483647
    ELSE b[1] + 256 * b[2] + 65536 * b[3] + 16777216 * b[4]

value_to_bytes(value) ==
    IF value.tag = "Long" THEN <<0>> \o i64_to_le_bytes(value.n)
    ELSE IF value.tag = "Text" THEN <<1>> \o u32_to_le_bytes(Len(value.s)) \o value.s
    ELSE <<2, IF value.b THEN 1 ELSE 0>>

RECURSIVE to_bytes(_)
to_bytes(values) ==
    IF values = << >> THEN << >>
    ELSE value_to_bytes(Head(values)) \o to_bytes(Tail(values))

\* String::from_utf8, for the single-byte (ASCII) strings of the model
from_utf8_ok(bytes) == \A i \in 1 .. Len(bytes) : bytes[i] < 128

\* the loop of from_bytes from `offset` on (offsets count from 0), with the
\* values decoded so far; returns [ok, values]
RECURSIVE from_bytes_at(_, _, _)
from_bytes_at(bytes, offset, values) ==
    IF ~(offset < Len(bytes)) THEN [ok |-> TRUE, values |-> values]
    ELSE LET type_tag == bytes[offset + 1]
             o1 == offset + 1
         IN  IF type_tag = 0 THEN
                 IF o1 + 8 > Len(bytes) THEN [ok |-> FALSE, values |-> values]
                 ELSE from_bytes_at(bytes, o1 + 8,
                        Append(values, Long(i64_from_le_bytes(SubSeq(bytes, o1 + 1, o1 + 8)))))
             ELSE IF type_tag = 1 THEN
                 IF o1 + 4 > Len(bytes) THEN [ok |-> FALSE, values |-> values]
                 ELSE LET len == u32_from_le_bytes(SubSeq(bytes, o1 + 1, o1 + 4))
                          o2  == o1 + 4
                      IN  IF len > Len(bytes) - o2 THEN [ok |-> FALSE, values |-> values]
                          ELSE IF ~from_utf8_ok(SubSeq(bytes, o2 + 1, o2 + len))
                          THEN [ok |-> FALSE, values |-> values]
                          ELSE from_bytes_at(bytes, o2 + len,
                                 Append(values, Text(SubSeq(bytes, o2 + 1, o2 + len))))
             ELSE IF type_tag = 2 THEN
                 IF o1 >= Len(bytes) THEN [ok |-> FALSE, values |-> values]
                 ELSE from_bytes_at(bytes, o1 + 1, Append(values, Bool(bytes[o1 + 1] # 0)))
             ELSE [ok |-> FALSE, values |-> values]

from_bytes(bytes) == from_bytes_at(bytes, 0, << >>)

-----------------------------------------------------------------------------
(* Text.  A string is the sequence of its bytes.                            *)

CharTab == 9
CharNewline == 10
CharSpace == 32
CharPipe == 124
CharZero == 48

RECURSIVE Decimal(_)
\* u32 / usize Display: the base-10 digits of n >= 0
Decimal(n) ==
    IF n < 10 THEN <<CharZero + n>>
    ELSE Append(Decimal(n \div 10), CharZero + (n % 10))

\* the base-10 digits of the unsigned 64-bit number with the 16-bit limbs m
\* (most significant first); no digit for zero
RECURSIVE UDigits(_)
UDigits(m) ==
    IF m = <<0, 0, 0, 0>> THEN << >>
    ELSE LET c2 == (m[1] % 10) * 65536 + m[2]
             c3 == (c2 % 10) * 65536 + m[3]
             c4 == (c3 % 10) * 65536 + m[4]
         IN  Append(UDigits(<<m[1] \div 10, c2 \div 10, c3 \div 10, c4 \div 10>>),
                    CharZero + (c4 % 10))

\* i64 Display
i64_to_string(n) ==
    LET l1 == (n.hi \div 65536) % 65536
        l2 == n.hi % 65536
        l3 == (n.lo \div 65536) % 65536
        l4 == n.lo % 65536
        \* the magnitude of a negative number: the two's complement
        k4 == l4 = 0
        k3 == k4 /\ l3 = 0
        k2 == k3 /\ l2 = 0
        neg == <<IF k2 THEN (65536 - l1) % 65536 ELSE 65535 - l1,
                 IF k3 THEN (65536 - l2) % 65536 ELSE 65535 - l2,
                 IF k4 THEN (65536 - l3) % 65536 ELSE 65535 - l3,
                 (65536 - l4) % 65536>>
    IN  IF n.hi < 0 THEN <<45>> \o UDigits(neg)
        ELSE IF n.hi = 0 /\ n.lo = 0 THEN <<CharZero>>
        ELSE UDigits(<<l1, l2, l3, l4>>)

IsDigit(c) == c >= CharZero /\ c <= CharZero + 9

RECURSIVE DigitsValue(_)
DigitsValue(str) ==
    IF str = << >> THEN 0
    ELSE 10 * DigitsValue(SubSeq(str, 1, Len(str) - 1)) + (str[Len(str)] - CharZero)

\* str::parse::<u32>() / ::<usize>() / ::<i64>() of an unsigned literal: [ok, value].
\* Digit strings of up to 9 digits are parsed; the model uses no longer ones.
parse_number(str) ==
    IF str # << >> /\ Len(str) <= 9 /\ \A i \in 1 .. Len(str) : IsDigit(str[i])
    THEN [ok |-> TRUE, value |-> DigitsValue(str)]
    ELSE [ok |-> FALSE, value |-> 0]

\* str::split(sep): the pieces between the separators
RECURSIVE split(_, _)
split(str, sep) ==
    IF \A i \in 1 .. Len(str) : str[i] # sep THEN <<str>>
    ELSE LET k == CHOOSE i \in 1 .. Len(str) :
                    str[i] = sep /\ \A j \in 1 .. (i - 1) : str[j] # sep
         IN  <<SubSeq(str, 1, k - 1)>> \o split(SubSeq(str, k + 1, Len(str)), sep)

\* BufRead::lines: the text is split at its newlines, a newline at its end
\* starts no further line, and a carriage return before a newline is dropped
lines(text) ==
    LET strip(l) == IF l # << >> /\ l[Len(l)] = 13 THEN SubSeq(l, 1, Len(l) - 1) ELSE l
        Stripped(ls, ended) ==
            [i \in 1 .. Len(ls) |-> IF i < Len(ls) \/ ended THEN strip(ls[i]) ELSE ls[i]]
    IN  IF text = << >> THEN << >>
        ELSE IF text[Len(text)] = CharNewline
        THEN Stripped(split(SubSeq(text, 1, Len(text) - 1), CharNewline), TRUE)
        ELSE Stripped(split(text, CharNewline), FALSE)

IsSpace(c) == c = CharSpace \/ c = CharTab \/ c = CharNewline \/ c = 13

RECURSIVE trim_start(_)
trim_start(str) ==
    IF str # << >> /\ IsSpace(Head(str)) THEN trim_start(Tail(str)) ELSE str

RECURSIVE trim_end(_)
trim_end(str) ==
    IF str # << >> /\ IsSpace(str[Len(str)]) THEN trim_end(SubSeq(str, 1, Len(str) - 1)) ELSE str

trim(str) == trim_end(trim_start(str))

to_uppercase(str) ==
    [i \in 1 .. Len(str) |-> IF str[i] >= 97 /\ str[i] <= 122 THEN str[i] - 32 ELSE str[i]]

RECURSIVE join(_, _)
join(strs, sep) ==
    IF strs = << >> THEN << >>
    ELSE IF Len(strs) = 1 THEN strs[1]
    ELSE strs[1] \o sep \o join(Tail(strs), sep)

RECURSIVE concat(_)
concat(strs) == IF strs = << >> THEN << >> ELSE Head(strs) \o concat(Tail(strs))

-----------------------------------------------------------------------------
(* database.rs: the catalog.  A DataType is the name of its sqlparser       *)
(* variant ("Float" stands for every variant the catalog has no keyword     *)
(* for); a ColumnDef is [name, data_type]; a TableMetadata is               *)
(* [schema, first_page_id, last_page_id]; `tables` maps a name to it.       *)

\* the type keywords, as text
KW_INT == <<73, 78, 84>>
KW_INTEGER == <<73, 78, 84, 69, 71, 69, 82>>
KW_BIGINT == <<66, 73, 71, 73, 78, 84>>
KW_SMALLINT == <<83, 77, 65, 76, 76, 73, 78, 84>>
KW_TEXT == <<84, 69, 88, 84>>
KW_VARCHAR == <<86, 65, 82, 67, 72, 65, 82>>
KW_CHAR == <<67, 72, 65, 82>>
KW_STRING == <<83, 84, 82, 73, 78, 71>>
KW_BOOLEAN == <<66, 79, 79, 76, 69, 65, 78>>

datatype_to_string(dt) ==
    IF dt \in {"Int", "Integer"} THEN KW_INT
    ELSE IF dt = "BigInt" THEN KW_BIGINT
    ELSE IF dt = "SmallInt" THEN KW_SMALLINT
    ELSE IF dt = "Text" THEN KW_TEXT
    ELSE IF dt = "Varchar" THEN KW_VARCHAR
    ELSE IF dt = "Char" THEN KW_CHAR
    ELSE IF dt = "String" THEN KW_STRING
    ELSE IF dt = "Boolean" THEN KW_BOOLEAN
    ELSE KW_TEXT

string_to_datatype(str) ==
    LET u == to_uppercase(str)
    IN  IF u = KW_INT THEN "Int"
        ELSE IF u = KW_INTEGER THEN "Integer"
        ELSE IF u = KW_BIGINT THEN "BigInt"
        ELSE IF u = KW_SMALLINT THEN "SmallInt"
        ELSE IF u = KW_TEXT THEN "Text"
        ELSE IF u = KW_VARCHAR THEN "Varchar"
        ELSE IF u = KW_CHAR THEN "Char"
        ELSE IF u = KW_STRING THEN "String"
        ELSE IF u = KW_BOOLEAN THEN "Boolean"
        ELSE "Text"

\* the orders in which a loop over the HashMap `tables` may visit its keys
RECURSIVE TableOrders(_)
TableOrders(names) ==
    IF names = {} THEN {<< >>}
    ELSE UNION {{<<n>> \o o : o \in TableOrders(names \ {n})} : n \in names}

\* the lines save_catalog writes for one table
catalog_entry(table_name, metadata) ==
    <<table_name \o <<CharPipe>> \o Decimal(metadata.first_page_id) \o <<CharPipe>>
        \o Decimal(metadata.last_page_id) \o <<CharPipe>> \o Decimal(Len(metadata.schema))>>
    \o [i \in 1 .. Len(metadata.schema) |->
            <<CharSpace, CharSpace>> \o metadata.schema[i].name \o <<CharPipe>>
                \o datatype_to_string(metadata.schema[i].data_type)]

\* save_catalog: the text of the catalog file (every line ends in a newline);
\* `order` is the order in which the loop visits the tables
save_catalog(tbls, order) ==
    LET ls    == concat([i \in 1 .. Len(order) |-> catalog_entry(order[i], tbls[order[i]])])
    IN  concat([i \in 1 .. Len(ls) |-> ls[i] \o <<CharNewline>>])

\* the column loop of load_catalog: reads up to `count` lines from line k on;
\* returns [schema, k]
RECURSIVE load_columns(_, _, _, _)
load_columns(ls, k, count, schema) ==
    IF count = 0 THEN [schema |-> schema, k |-> k]
    ELSE IF k > Len(ls) THEN load_columns(ls, k, count - 1, schema)
    ELSE LET col_parts == split(trim(ls[k]), CharPipe)
         IN  IF Len(col_parts) = 2
             THEN load_columns(ls, k + 1, count - 1,
                    Append(schema, [name |-> col_parts[1],
                                    data_type |-> string_to_datatype(col_parts[2])]))
             ELSE load_columns(ls, k + 1, count - 1, schema)

\* the line loop of load_catalog from line k on, into tbls
RECURSIVE load_lines(_, _, _)
load_lines(ls, k, tbls) ==
    IF k > Len(ls) THEN tbls
    ELSE IF trim(ls[k]) = << >> THEN load_lines(ls, k + 1, tbls)
    ELSE LET parts == split(ls[k], CharPipe)
         IN  IF Len(parts) # 4 THEN load_lines(ls, k + 1, tbls)
             ELSE LET first == parse_number(parts[2])
                      lastp == parse_number(parts[3])
                      count == parse_number(parts[4])
                      cols  == load_columns(ls, k + 1, IF count.ok THEN count.value ELSE 0, << >>)
                  IN  load_lines(ls, cols.k,
                        Put(tbls, parts[1],
                            [schema |-> cols.schema,
                             first_page_id |-> IF first.ok THEN first.value ELSE 0,
                             last_page_id |-> IF lastp.ok THEN lastp.value ELSE 0]))

\* load_catalog: the tables read from the text of the catalog file
load_catalog(text) == load_lines(lines(text), 1, << >>)

\* format!("{}.catalog", db_path), for the database file "db"
catalog_path_of_db == <<100, 98, 46, 99, 97, 116, 97, 108, 111, 103>>

\* the capacity Database::new gives its pool
DbCapacity == 100

\* A database value db is the record [bp, tables, catalog_path, catalog_file]:
\* the Database's fields and the text of the file at catalog_path.
Database_new(f, catalog_text) ==
    [bp |-> BufferPool_new(f, DbCapacity),
     tables |-> load_catalog(catalog_text),
     catalog_path |-> catalog_path_of_db,
     catalog_file |-> catalog_text]

\* with_buffer_pool: no catalog path, so save_catalog does nothing
with_buffer_pool(bp) ==
    [bp |-> bp, tables |-> << >>, catalog_path |-> << >>, catalog_file |-> << >>]

\* Drop for Database: a flush of the resident pages, nothing else
Database_drop(db) == [db EXCEPT !.bp = flush_all(db.bp)]

\* db.save_catalog(): the catalog file afterwards
db_save_catalog(db, order) ==
    IF db.catalog_path = << >> THEN db.catalog_file ELSE save_catalog(db.tables, order)

-----------------------------------------------------------------------------
(* executor.rs.  An Expr is [kind, ...] with kind one of "Number" (n: the   *)
(* literal's text), "String" (s), "Boolean" (b), "Null".  `ord` is the      *)
(* iteration order of the pool's HashMap during the handler.  A value a    *)
(* handler computes once and uses several times is the argument of a local  *)
(* operator (LET Fetched(f) == ... IN Fetched(fetch_page(...))).            *)

\* the page an Rc refers to, and a store through its borrow_mut()
Deref(bp, rc) == bp.heap[rc]
Store(bp, rc, page) == [bp EXCEPT !.heap = Put(bp.heap, rc, page)]

\* loop iterations after which a walk along a chain has revisited a page
Fuel == MaxPages + 1

\* expr_to_value returns [ok, value, msg], msg the error: "Invalid number: {}"
\* or "NULL not supported yet"
expr_to_value(expr) ==
    IF expr.kind = "Number"
    THEN LET p == parse_number(expr.n)
         IN  [ok |-> p.ok, value |-> Long(i64_of(p.value)),
              msg |-> IF p.ok THEN << >>
                      ELSE <<73, 110, 118, 97, 108, 105, 100, 32, 110, 117, 109, 98, 101,
                             114, 58, 32>> \o expr.n]
    ELSE IF expr.kind = "String" THEN [ok |-> TRUE, value |-> Text(expr.s), msg |-> << >>]
    ELSE IF expr.kind = "Boolean" THEN [ok |-> TRUE, value |-> Bool(expr.b), msg |-> << >>]
    ELSE [ok |-> FALSE, value |-> Long(i64_of(0)),
          msg |-> <<78, 85, 76, 76, 32, 110, 111, 116, 32, 115, 117, 112, 112, 111, 114,
                    116, 101, 100, 32, 121, 101, 116>>]

\* row_exprs.into_iter().map(expr_to_value).collect::<Result<Vec<_>, _>>()
RECURSIVE exprs_to_values(_, _)
exprs_to_values(exprs, values) ==
    IF exprs = << >> THEN [ok |-> TRUE, values |-> values, msg |-> << >>]
    ELSE LET v == expr_to_value(Head(exprs))
         IN  IF v.ok THEN exprs_to_values(Tail(exprs), Append(values, v.value))
             ELSE [ok |-> FALSE, values |-> values, msg |-> v.msg]

\* mutant: the old tail is not linked to the new page
link_page_skipped(bp, current_page_id, new_page_id, ord) ==
    [ok |-> TRUE, bp |-> bp]

\* the link written into an empty page that takes the old tail's place
link_page_over_empty(bp, current_page_id, new_page_id, ord) ==
    LET Link(f) ==
            IF ~f.ok THEN [ok |-> FALSE, bp |-> f.bp]
            ELSE [ok |-> TRUE,
                  bp |-> Store(f.bp, f.rc, set_next_page_id(init(Page_new), new_page_id))]
    IN  Link(fetch_page(bp, current_page_id, ord))

\* insert_tuple, "Link the old page to the new page": returns [ok, bp]
link_page(bp, current_page_id, new_page_id, ord) ==
    LET Link(f) ==
            IF ~f.ok THEN [ok |-> FALSE, bp |-> f.bp]
            ELSE [ok |-> TRUE,
                  bp |-> Store(f.bp, f.rc, set_next_page_id(Deref(f.bp, f.rc), new_page_id))]
    IN  Link(fetch_page(bp, current_page_id, ord))

\* the old tail linked before add_tuple on the new page has answered
new_page_link_first(c, np, current_page_id, bytes, ord) ==
    LET Linked(lk) == [ok |-> lk.ok /\ np.ok, bp |-> lk.bp, page_id |-> c.page_id,
                       loops |-> FALSE]
    IN  Linked(link_page(Store(c.bp, c.rc, np.page), current_page_id, c.page_id, ord))

\* insert_tuple, "Need to allocate a new page", with c what create_page
\* returned and np what add_tuple on the initialised new page returned; the
\* error of add_tuple ("Page full") comes back as msg, after
\* "Tuple too large for page: "
new_page(c, np, current_page_id, bytes, ord) ==
    LET Linked(lk) == [ok |-> lk.ok, bp |-> lk.bp, page_id |-> c.page_id, loops |-> FALSE]
    IN  IF ~np.ok
        THEN [ok |-> FALSE, bp |-> Store(c.bp, c.rc, np.page), page_id |-> c.page_id,
              loops |-> FALSE,
              msg |-> <<84, 117, 112, 108, 101, 32, 116, 111, 111, 32, 108, 97, 114, 103,
                        101, 32, 102, 111, 114, 32, 112, 97, 103, 101, 58, 32>>
                      \o <<80, 97, 103, 101, 32, 102, 117, 108, 108>>]
        ELSE Linked(link_page(Store(c.bp, c.rc, np.page), current_page_id, c.page_id, ord))

\* the loop of insert_tuple from current_page_id on; returns
\* [ok, bp, page_id, loops] (loops: the walk never ends)
RECURSIVE insert_tuple_loop(_, _, _, _, _)
insert_tuple_loop(bp, current_page_id, bytes, ord, fuel) ==
    LET Allocate(c) ==
            new_page(c, add_tuple(init(Deref(c.bp, c.rc)), bytes), current_page_id, bytes, ord)
        Added(f, at, next) ==
            IF at.ok
            THEN [ok |-> TRUE, bp |-> Store(f.bp, f.rc, at.page),
                  page_id |-> current_page_id, loops |-> FALSE]
            ELSE IF next = NO_NEXT_PAGE THEN Allocate(create_page(f.bp, ord))
            ELSE insert_tuple_loop(f.bp, next, bytes, ord, fuel - 1)
        Fetched(f) ==
            IF ~f.ok
            THEN [ok |-> FALSE, bp |-> f.bp, page_id |-> current_page_id, loops |-> FALSE]
            ELSE Added(f, add_tuple(Deref(f.bp, f.rc), bytes),
                       next_page_id_of(Deref(f.bp, f.rc)))
    IN  IF fuel = 0
        THEN [ok |-> FALSE, bp |-> bp, page_id |-> current_page_id, loops |-> TRUE]
        ELSE Fetched(fetch_page(bp, current_page_id, ord))

insert_tuple(bp, first_page_id, last_page_id, bytes, ord) ==
    insert_tuple_loop(bp, last_page_id, bytes, ord, Fuel)

\* every row started from the hint the statement began with
RECURSIVE insert_rows_from_hint(_, _, _, _, _, _, _)
insert_rows_from_hint(bp, first_page_id, last_page_id, rows, ord, inserted_count, trace) ==
    LET Failed(it) ==
            [ok |-> FALSE, bp |-> it.bp, last_page_id |-> last_page_id,
             inserted_count |-> inserted_count, loops |-> it.loops, trace |-> trace]
        Inserted(it) ==
            IF ~it.ok
            THEN (IF "msg" \in DOMAIN it THEN Failed(it) @@ [msg |-> it.msg]
                  ELSE Failed(it))
            ELSE insert_rows_from_hint(it.bp, first_page_id, last_page_id, Tail(rows), ord,
                        inserted_count + 1,
                        Append(trace, [from |-> last_page_id, to |-> it.page_id]))
        Converted(vs) ==
            IF ~vs.ok
            THEN [ok |-> FALSE, bp |-> bp, last_page_id |-> last_page_id,
                  inserted_count |-> inserted_count, loops |-> FALSE, trace |-> trace,
                  msg |-> vs.msg]
            ELSE Inserted(insert_tuple(bp, first_page_id, last_page_id,
                                       to_bytes(vs.values), ord))
    IN  IF rows = << >>
        THEN [ok |-> TRUE, bp |-> bp, last_page_id |-> last_page_id,
              inserted_count |-> inserted_count, loops |-> FALSE, trace |-> trace]
        ELSE Converted(exprs_to_values(Head(rows), << >>))

\* the loop of handle_insert over the rows; returns
\* [ok, bp, last_page_id, inserted_count, loops, trace], and msg when
\* insert_tuple gave one.  trace has, for every row appended, the page
\* insert_tuple was called with (from) and the page it returned (to)
RECURSIVE insert_rows(_, _, _, _, _, _, _)
insert_rows(bp, first_page_id, last_page_id, rows, ord, inserted_count, trace) ==
    LET Failed(it) ==
            [ok |-> FALSE, bp |-> it.bp, last_page_id |-> last_page_id,
             inserted_count |-> inserted_count, loops |-> it.loops, trace |-> trace]
        Inserted(it) ==
            IF ~it.ok
            THEN (IF "msg" \in DOMAIN it THEN Failed(it) @@ [msg |-> it.msg]
                  ELSE Failed(it))
            ELSE insert_rows(it.bp, first_page_id, it.page_id, Tail(rows), ord,
                             inserted_count + 1,
                             Append(trace, [from |-> last_page_id, to |-> it.page_id]))
        Converted(vs) ==
            IF ~vs.ok
            THEN [ok |-> FALSE, bp |-> bp, last_page_id |-> last_page_id,
                  inserted_count |-> inserted_count, loops |-> FALSE, trace |-> trace,
                  msg |-> vs.msg]
            ELSE Inserted(insert_tuple(bp, first_page_id, last_page_id,
                                       to_bytes(vs.values), ord))
    IN  IF rows = << >>
        THEN [ok |-> TRUE, bp |-> bp, last_page_id |-> last_page_id,
              inserted_count |-> inserted_count, loops |-> FALSE, trace |-> trace]
        ELSE Converted(exprs_to_values(Head(rows), << >>))

\* format!("Table '{}' already exists", table_name)
already_exists(table_name) ==
    <<84, 97, 98, 108, 101, 32, 39>> \o table_name
        \o <<39, 32, 97, 108, 114, 101, 97, 100, 121, 32, 101, 120, 105, 115, 116, 115>>

\* the name without its quotes
does_not_exist_unquoted(table_name) ==
    <<84, 97, 98, 108, 101, 32>> \o table_name
        \o <<32, 100, 111, 101, 115, 32, 110, 111, 116, 32, 101, 120, 105, 115, 116>>

\* format!("Table '{}' does not exist", table_name)
does_not_exist(table_name) ==
    <<84, 97, 98, 108, 101, 32, 39>> \o table_name
        \o <<39, 32, 100, 111, 101, 115, 32, 110, 111, 116, 32, 101, 120, 105, 115, 116>>

\* the catalog saved without the flush before it
save_without_flush(db, order, io) ==
    IF io = "save_catalog" /\ db.catalog_path # << >>
    THEN [ok |-> FALSE, db |-> db]
    ELSE [ok |-> TRUE, db |-> [db EXCEPT !.catalog_file = db_save_catalog(db, order)]]

\* the end of handle_create_table and handle_insert: flush_all, then
\* save_catalog; returns [ok, db].  `io` is what the file system does during
\* the statement: "ok", or "save_catalog" when the catalog file cannot be
\* opened for writing (OpenOptions::open returns Err and save_catalog with it)
flush_and_save(db, order, io) ==
    LET Saved(d1) ==
            IF io = "save_catalog" /\ d1.catalog_path # << >>
            THEN [ok |-> FALSE, db |-> d1]
            ELSE [ok |-> TRUE, db |-> [d1 EXCEPT !.catalog_file = db_save_catalog(d1, order)]]
    IN  Saved([db EXCEPT !.bp = flush_all(db.bp)])

\* the existence check made after the page was created
handle_create_table_check_late(db, table_name, columns, ord, order, io) ==
    LET Created(c) ==
            flush_and_save(
                [db EXCEPT !.tables = Put(db.tables, table_name,
                                [schema |-> columns, first_page_id |-> c.page_id,
                                 last_page_id |-> c.page_id]),
                           !.bp = Store(c.bp, c.rc, init(Deref(c.bp, c.rc)))],
                order, io)
        Checked(c) ==
            IF table_name \in DOMAIN db.tables
            THEN [ok |-> FALSE, db |-> [db EXCEPT !.bp = c.bp],
                  msg |-> already_exists(table_name)]
            ELSE Created(c)
    IN  Checked(create_page(db.bp, ord))

\* handle_create_table returns [ok, db], and the message msg with the error
\* of its first return
handle_create_table(db, table_name, columns, ord, order, io) ==
    LET Created(c) ==
            flush_and_save(
                [db EXCEPT !.tables = Put(db.tables, table_name,
                                [schema |-> columns, first_page_id |-> c.page_id,
                                 last_page_id |-> c.page_id]),
                           !.bp = Store(c.bp, c.rc, init(Deref(c.bp, c.rc)))],
                order, io)
    IN  IF table_name \in DOMAIN db.tables
        THEN [ok |-> FALSE, db |-> db, msg |-> already_exists(table_name)]
        ELSE Created(create_page(db.bp, ord))

\* an INSERT that undoes its rows when one of them fails
handle_insert_all_or_nothing(db, table_name, rows, ord, order, io) ==
    LET Saved(r, fs) ==
            [ok |-> fs.ok, db |-> fs.db, inserted_count |-> r.inserted_count,
             loops |-> FALSE, trace |-> r.trace]
        Failed(r) ==
            [ok |-> FALSE, db |-> db,
             inserted_count |-> r.inserted_count, loops |-> r.loops, trace |-> r.trace]
        Done(metadata, r) ==
            IF ~r.ok
            THEN (IF "msg" \in DOMAIN r THEN Failed(r) @@ [msg |-> r.msg] ELSE Failed(r))
            ELSE Saved(r, flush_and_save(
                            [db EXCEPT !.tables = Put(db.tables, table_name,
                                            [metadata EXCEPT !.last_page_id = r.last_page_id]),
                                       !.bp = r.bp],
                            order, io))
        Found(metadata) ==
            Done(metadata, insert_rows(db.bp, metadata.first_page_id, metadata.last_page_id,
                                       rows, ord, 0, << >>))
    IN  IF table_name \notin DOMAIN db.tables
        THEN [ok |-> FALSE, db |-> db, inserted_count |-> 0, loops |-> FALSE,
              trace |-> << >>, msg |-> does_not_exist(table_name)]
        ELSE Found(db.tables[table_name])

\* handle_insert returns [ok, db, inserted_count, loops, trace], and the
\* message msg with the error of its first return or of insert_tuple; a
\* statement that fails at a row keeps what its rows did to the pool and
\* neither flushes nor saves
handle_insert(db, table_name, rows, ord, order, io) ==
    LET Saved(r, fs) ==
            [ok |-> fs.ok, db |-> fs.db, inserted_count |-> r.inserted_count,
             loops |-> FALSE, trace |-> r.trace]
        Failed(r) ==
            [ok |-> FALSE, db |-> [db EXCEPT !.bp = r.bp],
             inserted_count |-> r.inserted_count, loops |-> r.loops, trace |-> r.trace]
        Done(metadata, r) ==
            IF ~r.ok
            THEN (IF "msg" \in DOMAIN r THEN Failed(r) @@ [msg |-> r.msg] ELSE Failed(r))
            ELSE Saved(r, flush_and_save(
                            [db EXCEPT !.tables = Put(db.tables, table_name,
                                            [metadata EXCEPT !.last_page_id = r.last_page_id]),
                                       !.bp = r.bp],
                            order, io))
        Found(metadata) ==
            Done(metadata, insert_rows(db.bp, metadata.first_page_id, metadata.last_page_id,
                                       rows, ord, 0, << >>))
    IN  IF table_name \notin DOMAIN db.tables
        THEN [ok |-> FALSE, db |-> db, inserted_count |-> 0, loops |-> FALSE,
              trace |-> << >>, msg |-> does_not_exist(table_name)]
        ELSE Found(db.tables[table_name])

\* bool Display
bool_to_string(b) == IF b THEN <<116, 114, 117, 101>> ELSE <<102, 97, 108, 115, 101>>

format_value(value) ==
    IF value.tag = "Long" THEN i64_to_string(value.n)
    ELSE IF value.tag = "Text" THEN value.s
    ELSE bool_to_string(value.b)

\* one hyphen short
hyphens_short(n) == [i \in 1 .. (n - 1) |-> 45]

\* "-".repeat(n)
hyphens(n) == [i \in 1 .. n |-> 45]

\* handle_query, "Read all tuples from this page", from slot_id on; returns
\* [ok, rows]
RECURSIVE scan_slots(_, _, _)
scan_slots(page, slot_id, rows) ==
    LET Decoded(r) ==
            IF ~r.ok THEN [ok |-> FALSE, rows |-> rows]
            ELSE scan_slots(page, slot_id + 1, Append(rows, r.values))
        Got(t) ==
            IF ~t.some THEN scan_slots(page, slot_id + 1, rows)
            ELSE Decoded(from_bytes(t.bytes))
    IN  IF slot_id >= num_slots(page) THEN [ok |-> TRUE, rows |-> rows]
        ELSE Got(get_tuple(page, slot_id))

\* the page loop of handle_query from current_page_id on; returns
\* [ok, bp, rows, loops]
RECURSIVE scan_pages(_, _, _, _, _)
scan_pages(bp, current_page_id, ord, rows, fuel) ==
    LET Scanned(f, sl, next) ==
            IF ~sl.ok THEN [ok |-> FALSE, bp |-> f.bp, rows |-> sl.rows, loops |-> FALSE]
            ELSE IF next = NO_NEXT_PAGE
            THEN [ok |-> TRUE, bp |-> f.bp, rows |-> sl.rows, loops |-> FALSE]
            ELSE scan_pages(f.bp, next, ord, sl.rows, fuel - 1)
        Copied(f, page_copy) ==
            Scanned(f, scan_slots(page_copy, 0, rows), next_page_id_of(page_copy))
        Fetched(f) ==
            IF ~f.ok THEN [ok |-> FALSE, bp |-> f.bp, rows |-> rows, loops |-> FALSE]
            ELSE Copied(f, Deref(f.bp, f.rc))
    IN  IF fuel = 0 THEN [ok |-> FALSE, bp |-> bp, rows |-> rows, loops |-> TRUE]
        ELSE Fetched(fetch_page(bp, current_page_id, ord))

\* the text handle_query builds from the schema and the decoded rows
query_output(schema, rows) ==
    LET headers == [i \in 1 .. Len(schema) |-> schema[i].name]
        head == IF schema = << >> THEN << >>
                ELSE join(headers, <<CharTab>>) \o <<CharNewline>>
                     \o hyphens(Len(headers) * 10) \o <<CharNewline>>
        body == concat([i \in 1 .. Len(rows) |->
                    join([k \in 1 .. Len(rows[i]) |-> format_value(rows[i][k])], <<CharTab>>)
                    \o <<CharNewline>>])
    IN  head \o body \o <<40>> \o Decimal(Len(rows)) \o <<32, 114, 111, 119, 115, 41>>

\* handle_query for SELECT * FROM table_name; returns
\* [ok, bp, rows, output, loops]
handle_query(db, table_name, ord) ==
    LET Scanned(metadata, sc) ==
            [ok |-> sc.ok, bp |-> sc.bp, rows |-> sc.rows,
             output |-> query_output(metadata.schema, sc.rows), loops |-> sc.loops]
        Found(metadata) ==
            Scanned(metadata, scan_pages(db.bp, metadata.first_page_id, ord, << >>, Fuel))
    IN  IF table_name \notin DOMAIN db.tables
        THEN [ok |-> FALSE, bp |-> db.bp, rows |-> << >>, output |-> << >>, loops |-> FALSE,
              msg |-> does_not_exist(table_name)]
        ELSE Found(db.tables[table_name])

\* execute: a statement is [kind, table, ...] with kind "CreateTable"
\* (columns), "Insert" (rows), "Query" (SELECT * FROM table) or any other
\* kind, which is unsupported; returns the handler's record, with db the
\* database afterwards
execute(db, stmt, ord, order, io) ==
    LET Queried(q) == q @@ [db |-> [db EXCEPT !.bp = q.bp]]
    IN  IF stmt.kind = "CreateTable"
        THEN handle_create_table(db, stmt.table, stmt.columns, ord, order, io)
        ELSE IF stmt.kind = "Insert"
        THEN handle_insert(db, stmt.table, stmt.rows, ord, order, io)
        ELSE IF stmt.kind = "Query" THEN Queried(handle_query(db, stmt.table, ord))
        ELSE [ok |-> FALSE, db |-> db,
              \* "Unsupported statement"
              msg |-> <<85, 110, 115, 117, 112, 112, 111, 114, 116, 101, 100, 32,
                        115, 116, 97, 116, 101, 109, 101, 110, 116>>]

-----------------------------------------------------------------------------
(* The buffer pool driven directly, as buffer.rs's tests drive it: callers  *)
(* create and fetch pages, keep the Rc they got, store bytes through it     *)
(* (page.data[0] = v), flush, and reopen the file with a new pool.          *)

BP == [file |-> file, next_page_id |-> next_page_id, pages |-> pages,
       heap |-> heap, capacity |-> capacity]

\* the byte buffer.rs's tests store: page.data[0] = 42
TestByte == 42

Held(hs) == {h.rc : h \in hs}

\* the pool afterwards, with the allocations nobody holds freed
SetBP(bp, hs) ==
    LET b == Rc_drop(bp, Held(hs))
    IN  /\ file' = b.file
        /\ next_page_id' = b.next_page_id
        /\ pages' = b.pages
        /\ heap' = b.heap
        /\ capacity' = b.capacity

\* the pool's tests use no Database
db_vars == <<tables, catalog_path, catalog_file, inserted, failed>>

\* handles of pages that the step evicted become stale
Age(hs, bp) ==
    {[h EXCEPT !.stale = h.stale \/ (h.id \in DOMAIN pages /\ h.id \notin DOMAIN bp.pages)]
        : h \in hs}

\* the caller keeps the Rc it got while it holds fewer than MaxHandles
Keep(hs, h) ==
    IF h \in hs \/ Cardinality(hs) < MaxHandles THEN hs \cup {h} ELSE hs

PoolInit ==
    /\ file = << >>
    /\ next_page_id = 0
    /\ pages = << >>
    /\ heap = << >>
    /\ capacity \in 0 .. MaxCapacity
    /\ handles = {}
    /\ wrote = << >>
    /\ wrote_live = << >>
    /\ last = [op |-> "new", id |-> 0, ok |-> TRUE]
    /\ tables = << >>
    /\ catalog_path = << >>
    /\ catalog_file = << >>
    /\ inserted = << >>
    /\ failed = FALSE

PoolCreatePage ==
    /\ next_page_id < MaxPoolPages
    /\ \E ord \in HashOrders(BP, 0) :
        LET r  == create_page(BP, ord)
            hs == Keep(Age(handles, r.bp), [id |-> r.page_id, rc |-> r.rc, stale |-> FALSE])
        IN  /\ SetBP(r.bp, hs)
            /\ handles' = hs
            /\ wrote' = Put(wrote, r.page_id, 0)
            /\ wrote_live' = Put(wrote_live, r.page_id, 0)
            /\ last' = [op |-> "create_page", id |-> r.page_id, ok |-> TRUE]
            /\ UNCHANGED db_vars

PoolFetchPage ==
    \E id \in PageIds, ord \in HashOrders(BP, 0) :
        LET r  == fetch_page(BP, id, ord)
            hs == IF r.ok
                  THEN Keep(Age(handles, r.bp), [id |-> id, rc |-> r.rc, stale |-> FALSE])
                  ELSE Age(handles, r.bp)
        IN  /\ SetBP(r.bp, hs)
            /\ handles' = hs
            /\ UNCHANGED <<wrote, wrote_live>>
            /\ last' = [op |-> "fetch_page", id |-> id, ok |-> r.ok]
            /\ UNCHANGED db_vars

\* page_rc.borrow_mut().data[0] = v
HandleWrite ==
    \E h \in handles, v \in {TestByte} :
        /\ heap' = [heap EXCEPT ![h.rc] = SetByte(@, 0, v)]
        /\ wrote' = Put(wrote, h.id, v)
        /\ wrote_live' = IF h.stale THEN wrote_live ELSE Put(wrote_live, h.id, v)
        /\ last' = [op |-> "write", id |-> h.id, ok |-> TRUE]
        /\ UNCHANGED db_vars
        /\ UNCHANGED <<file, next_page_id, pages, capacity, handles>>

\* a caller drops its Rc
HandleDrop ==
    \E h \in handles :
        /\ handles' = handles \ {h}
        /\ SetBP(BP, handles \ {h})
        /\ last' = [op |-> "drop", id |-> h.id, ok |-> TRUE]
        /\ UNCHANGED db_vars
        /\ UNCHANGED <<wrote, wrote_live>>

PoolFlushAll ==
    /\ SetBP(flush_all(BP), handles)
    /\ last' = [op |-> "flush_all", id |-> 0, ok |-> TRUE]
    /\ UNCHANGED db_vars
    /\ UNCHANGED <<handles, wrote, wrote_live>>

\* the pool and every Rc go out of scope (BufferPool has no Drop: nothing is
\* written), then DiskManager::open and BufferPool::new on the same file
PoolReopen ==
    /\ SetBP(BufferPool_new(file, capacity), {})
    /\ handles' = {}
    /\ wrote' = [id \in {x \in PageIds : x < Len(file)} |-> Byte(file[id + 1], 0)]
    /\ wrote_live' = [id \in {x \in PageIds : x < Len(file)} |-> Byte(file[id + 1], 0)]
    /\ last' = [op |-> "reopen", id |-> 0, ok |-> TRUE]
    /\ UNCHANGED db_vars

PoolNext ==
    \/ PoolCreatePage
    \/ PoolFetchPage
    \/ HandleWrite
    \/ HandleDrop
    \/ PoolFlushAll
    \/ PoolReopen

SpecPool == PoolInit /\ [][PoolNext]_vars

-----------------------------------------------------------------------------
(* Claims about the buffer pool, checked under SpecPool *)

PoolOp == last.op \in {"create_page", "fetch_page"}

\* C5 as stated: after any fetch_page or create_page the number of resident
\* pages is at most capacity, for every capacity (0 included).
C5_BoundEveryCapacity ==
    PoolOp => Cardinality(DOMAIN pages) <= capacity

\* C5 amended: for every capacity >= 1, the number of resident pages is at
\* most capacity after any fetch_page or create_page.
C5_ResidentBound ==
    (PoolOp /\ capacity >= 1) => Cardinality(DOMAIN pages) <= capacity

C5_Witness ==
    /\ last.op = "create_page" /\ capacity >= 1
    /\ Cardinality(DOMAIN pages) = capacity
    /\ next_page_id > capacity
    /\ last.id \in DOMAIN pages

\* C6: while a page stays resident, fetch_page(id) returns the very buffer
\* that every handle made for it since it became resident refers to (the
\* create_page or fetch_page that installed it included), and the byte last
\* stored through such a handle is read through the handle fetch_page returns.
C6_SameBufferWhileResident ==
    \A h \in handles : ~h.stale =>
        /\ h.id \in DOMAIN pages
        /\ \A ord \in HashOrders(BP, 0) :
              LET r == fetch_page(BP, h.id, ord)
              IN  /\ r.ok
                  /\ r.rc = h.rc
                  /\ Byte(r.bp.heap[r.rc], 0) = wrote_live[h.id]

C6_Witness ==
    /\ last.op = "fetch_page" /\ last.ok
    /\ \E h \in handles : h.id = last.id /\ ~h.stale /\ wrote_live[h.id] = TestByte
    /\ Cardinality(DOMAIN pages) >= 2

\* C7 as stated: a byte stored through any handle the pool returned for a
\* page id is what every later fetch_page of that id reads.
C7_AnyWriteVisible ==
    \A id \in DOMAIN wrote : \A ord \in HashOrders(BP, 0) :
        LET r == fetch_page(BP, id, ord)
        IN  r.ok => Byte(r.bp.heap[r.rc], 0) = wrote[id]

\* C7 amended: a byte stored through a handle whose page has not been
\* evicted since the handle was returned is what every later fetch_page of
\* that id reads, across any interleaving of fetches, creates and evictions.
C7_LiveWriteVisible ==
    \A id \in DOMAIN wrote_live : \A ord \in HashOrders(BP, 0) :
        LET r == fetch_page(BP, id, ord)
        IN  r.ok => Byte(r.bp.heap[r.rc], 0) = wrote_live[id]

\* a page written, evicted and fetched back while the old handle is still held
C7_Witness ==
    /\ last.op = "fetch_page" /\ last.ok
    /\ last.id \in DOMAIN pages
    /\ wrote_live[last.id] = TestByte
    /\ \E h \in handles : h.id = last.id /\ h.stale
    /\ Byte(heap[pages[last.id]], 0) = TestByte

C9_FlushThenReopen ==
    last.op = "flush_all" =>
        \A id \in DOMAIN pages :
            LET bp == BufferPool_new(file, capacity)
            IN  \A ord \in HashOrders(bp, 0) :
                    LET r == fetch_page(bp, id, ord)
                    IN  r.ok /\ r.bp.heap[r.rc] = heap[pages[id]]

C9_Witness ==
    /\ last.op = "flush_all"
    /\ Cardinality(DOMAIN pages) >= 2
    /\ \E id \in DOMAIN pages : Byte(heap[pages[id]], 0) = TestByte

-----------------------------------------------------------------------------
(* The database driven by statements, as execute's callers drive it: a      *)
(* Database from Database::new (catalog file, pool of DbCapacity pages) or  *)
(* from with_buffer_pool (no catalog file, a pool of any capacity) runs     *)
(* CREATE TABLE, INSERT and SELECT * statements, and a Database::new one    *)
(* is dropped and opened again.                                             *)

\* table names: t, u
TableNames == {<<116>>, <<117>>}

\* CREATE TABLE t (id INT, name TEXT); CREATE TABLE u (x FLOAT)
Columns(table_name) ==
    IF table_name = <<116>>
    THEN <<[name |-> <<105, 100>>, data_type |-> "Int"],
           [name |-> <<110, 97, 109, 101>>, data_type |-> "Text"]>>
    ELSE <<[name |-> <<120>>, data_type |-> "Float"]>>

\* a text of which one row fits a page and two do not: 'a', NULs, 'z'
BigLen == (PAGE_SIZE - HEADER_SIZE) \div 2 - SLOT_SIZE
BigText == [i \in 1 .. BigLen |-> IF i = 1 THEN 97 ELSE IF i = BigLen THEN 122 ELSE 0]

\* the value rows of the INSERT statements: 1 is (7, 'x', TRUE), 2 is
\* ('a...z'), 3 is (NULL); 4 is the text whose row fills an empty page to
\* its last byte (tag, length and text: PAGE_SIZE - HEADER_SIZE - SLOT_SIZE
\* bytes) and 5 the text one byte longer; 6 is ('END'); 7 is (1.5), a number
\* that is no i64
RowKinds == 1 .. 3
RowExprs(kind) ==
    LET Wide(len) == [i \in 1 .. len |-> IF i = 1 THEN 97 ELSE IF i = len THEN 122 ELSE 0]
    IN  IF kind = 1
        THEN <<[kind |-> "Number", n |-> <<55>>], [kind |-> "String", s |-> <<120>>],
               [kind |-> "Boolean", b |-> TRUE]>>
        ELSE IF kind = 2 THEN <<[kind |-> "String", s |-> BigText]>>
        ELSE IF kind = 3 THEN <<[kind |-> "Null"]>>
        ELSE IF kind = 4
        THEN <<[kind |-> "String", s |-> Wide(PAGE_SIZE - HEADER_SIZE - SLOT_SIZE - 5)]>>
        ELSE IF kind = 5
        THEN <<[kind |-> "String", s |-> Wide(PAGE_SIZE - HEADER_SIZE - SLOT_SIZE - 4)]>>
        ELSE IF kind = 7 THEN <<[kind |-> "Number", n |-> <<49, 46, 53>>]>>
        ELSE <<[kind |-> "String", s |-> <<69, 78, 68>>]>>

\* INSERT INTO name VALUES (...), ...: the kinds of its value rows (a statement
\* fails at its first NULL, so none has rows after one)
InsertStmts ==
    {st \in UNION {[1 .. n -> RowKinds] : n \in 1 .. MaxInsertRows} :
        \A i \in 1 .. (Len(st) - 1) : st[i] # 3}

DB == [bp |-> BP, tables |-> tables, catalog_path |-> catalog_path,
       catalog_file |-> catalog_file]

\* the database afterwards; the handler's Rc clones are gone
SetDB(db) ==
    /\ SetBP(db.bp, {})
    /\ tables' = db.tables
    /\ catalog_path' = db.catalog_path
    /\ catalog_file' = db.catalog_file

\* the order save_catalog's loop visits the tables in: one of TableOrders,
\* the same for equal sets of names (the orders differ only in where a
\* table's lines stand in the file)
SaveOrders(names) == {CHOOSE o \in TableOrders(names) : TRUE}

Init ==
    /\ \E db \in {Database_new(<< >>, << >>)}
                \cup {with_buffer_pool(BufferPool_new(<< >>, c)) : c \in 1 .. MaxDbCapacity} :
          /\ file = db.bp.file
          /\ next_page_id = db.bp.next_page_id
          /\ pages = db.bp.pages
          /\ heap = db.bp.heap
          /\ capacity = db.bp.capacity
          /\ tables = db.tables
          /\ catalog_path = db.catalog_path
          /\ catalog_file = db.catalog_file
    /\ handles = {}
    /\ wrote = << >>
    /\ wrote_live = << >>
    /\ last = [op |-> "new", id |-> 0, ok |-> TRUE]
    /\ inserted = << >>
    /\ failed = FALSE

pool_history == <<handles, wrote, wrote_live>>

\* the number of rows in the history
RECURSIVE RowsOf(_, _)
RowsOf(ins, names) ==
    IF names = {} THEN 0
    ELSE LET n == CHOOSE x \in names : TRUE
         IN  Len(ins[n]) + RowsOf(ins, names \ {n})
Rows(ins) == RowsOf(ins, DOMAIN ins)

CreateTable ==
    \E table_name \in TableNames, ord \in HashOrders(BP, 1) :
    \E order \in SaveOrders(DOMAIN tables \cup {table_name}) :
    \E r \in {handle_create_table(DB, table_name, Columns(table_name), ord, order, "ok")} :
        /\ r.db.bp.next_page_id <= MaxPages
        /\ SetDB(r.db)
        /\ inserted' = IF r.ok THEN Put(inserted, table_name, << >>) ELSE inserted
        /\ failed' = (failed \/ ~r.ok)
        /\ last' = [op |-> "execute", id |-> 0, ok |-> r.ok]
        /\ UNCHANGED pool_history

Insert ==
    \E table_name \in TableNames, stmt \in InsertStmts, ord \in HashOrders(BP, MaxPages),
       order \in SaveOrders(DOMAIN tables) :
    \E r \in {handle_insert(DB, table_name, [i \in 1 .. Len(stmt) |-> RowExprs(stmt[i])],
                             ord, order, "ok")} :
        /\ ~r.loops
        /\ r.db.bp.next_page_id <= MaxPages
        /\ Rows(inserted) + r.inserted_count <= MaxRows
        /\ SetDB(r.db)
        /\ inserted' = IF table_name \in DOMAIN inserted
                       THEN [inserted EXCEPT ![table_name] =
                                @ \o SubSeq(stmt, 1, r.inserted_count)]
                       ELSE inserted
        /\ failed' = (failed \/ ~r.ok)
        /\ last' = [op |-> "execute", id |-> 0, ok |-> r.ok]
        /\ UNCHANGED pool_history

Select ==
    \E table_name \in TableNames, ord \in HashOrders(BP, MaxPages) :
    \E r \in {handle_query(DB, table_name, ord)} :
        /\ ~r.loops
        /\ SetDB([DB EXCEPT !.bp = r.bp])
        /\ UNCHANGED <<last, inserted, failed, pool_history>>

\* the Database goes out of scope (Drop) and Database::new opens the same
\* files again
Reopen ==
    /\ catalog_path # << >>
    /\ SetDB(Database_new(Database_drop(DB).bp.file, catalog_file))
    /\ UNCHANGED <<last, inserted, failed, pool_history>>

Next ==
    \/ CreateTable
    \/ Insert
    \/ Select
    \/ Reopen

Spec == Init /\ [][Next]_vars

-----------------------------------------------------------------------------
(* Claims about the executor and the catalog, checked under Spec *)

\* the values of a value row of kind 1 or 2
RowValues(kind) == exprs_to_values(RowExprs(kind), << >>).values

\* the rows the history holds for a table, in the order insert_tuple took them
ExpectedRows(table_name) ==
    [i \in 1 .. Len(inserted[table_name]) |-> RowValues(inserted[table_name][i])]

\* the bytes of page id as the pool bp sees them: its buffer when resident,
\* else its image in the file
PageIn(bp, id) ==
    IF id \in DOMAIN bp.pages THEN bp.heap[bp.pages[id]]
    ELSE IF id >= 0 /\ id < Len(bp.file) THEN bp.file[id + 1]
    ELSE Page_new

NoEnd == 0 - 2

\* the page at which the chain from id ends (next_page_id = NO_NEXT_PAGE), or
\* NoEnd when it leaves the file or has not ended after `fuel` pages
RECURSIVE ChainEnd(_, _)
ChainEnd(id, fuel) ==
    IF fuel = 0 \/ id < 0 \/ id >= next_page_id THEN NoEnd
    ELSE IF next_page_id_of(PageIn(BP, id)) = NO_NEXT_PAGE THEN id
    ELSE ChainEnd(next_page_id_of(PageIn(BP, id)), fuel - 1)

\* C1: for every table, SELECT * returns the rows that were inserted in the
\* table, in the order of their insertion, after any sequence of statements
\* (multi-row INSERTs and INSERTs that fail part-way included).
C1_SelectInInsertionOrder ==
    \A t \in DOMAIN tables : \A ord \in HashOrders(BP, MaxPages) :
        LET q == handle_query(DB, t, ord)
        IN  q.ok /\ q.rows = ExpectedRows(t)

\* C2: while every CREATE TABLE and INSERT statement so far succeeded, SELECT *
\* on a table returns as many rows as were inserted in it, and each inserted
\* row as often as it was inserted, whatever the number of pages of the
\* chain and the capacity of the pool.
C2_AllRowsReturned ==
    ~failed =>
        \A t \in DOMAIN tables : \A ord \in HashOrders(BP, MaxPages) :
            LET q == handle_query(DB, t, ord)
            IN  /\ q.ok
                /\ Len(q.rows) = Len(inserted[t])
                /\ \A k \in 1 .. 2 :
                      Cardinality({j \in 1 .. Len(q.rows) : q.rows[j] = RowValues(k)})
                        = Cardinality({i \in 1 .. Len(inserted[t]) : inserted[t][i] = k})

\* rows of both sizes in a chain of more pages than the pool holds
C2_Witness ==
    /\ ~failed /\ last.op = "execute" /\ last.ok
    /\ \E t \in DOMAIN tables :
          /\ Len(inserted[t]) = MaxRows
          /\ \E i, j \in 1 .. MaxRows : inserted[t][i] = 1 /\ inserted[t][j] = 2
          /\ tables[t].first_page_id # tables[t].last_page_id
          /\ ChainEnd(tables[t].first_page_id, Fuel) = tables[t].last_page_id
          /\ capacity < 2

\* C3: after a CREATE TABLE or INSERT that saved the catalog, the chain of
\* every table from first_page_id is finite and acyclic and ends, at a page
\* whose next_page_id is NO_NEXT_PAGE, in the table's last_page_id.
C3_ChainEndsAtLastPage ==
    (last.op = "execute" /\ last.ok /\ catalog_path # << >>) =>
        \A t \in DOMAIN tables :
            ChainEnd(tables[t].first_page_id, Fuel) = tables[t].last_page_id

\* C4: when a table's last_page_id hint points at a page that has a
\* successor, insert_tuple with that hint puts the tuple in the page that
\* ends the chain afterwards.
C4_StaleHintWalksToTail ==
    \A t \in DOMAIN tables : \A k \in 1 .. 2 : \A ord \in HashOrders(BP, MaxPages) :
        next_page_id_of(PageIn(BP, tables[t].last_page_id)) # NO_NEXT_PAGE =>
            LET r == insert_tuple(BP, tables[t].first_page_id, tables[t].last_page_id,
                                  to_bytes(RowValues(k)), ord)
            IN  r.ok => next_page_id_of(PageIn(r.bp, r.page_id)) = NO_NEXT_PAGE

\* C10: while every CREATE TABLE and INSERT statement so far succeeded,
\* dropping the Database and opening it again from the page file and the
\* catalog file gives the same tables, with the same column names and types
\* and the same first and last page ids, and SELECT * returns the same rows.
C10_ReopenExposesSame ==
    (~failed /\ catalog_path # << >>) =>
        LET db2 == Database_new(Database_drop(DB).bp.file, catalog_file)
        IN  /\ DOMAIN db2.tables = DOMAIN tables
            /\ \A t \in DOMAIN tables :
                  /\ db2.tables[t] = tables[t]
                  /\ \A ord \in HashOrders(BP, MaxPages) :
                        LET q1 == handle_query(DB, t, ord)
                            q2 == handle_query(db2, t, ord)
                        IN  q1.ok /\ q2.ok /\ q2.rows = q1.rows

-----------------------------------------------------------------------------
(* The disk manager driven directly, as storage.rs's tests drive it: pages  *)
(* are allocated, written (also at ids never allocated: the file grows),    *)
(* read back, and the file is closed and opened again.                      *)

MaxDiskWrites == 3  \* write_page calls of one behaviour

\* byte patterns: all zero, and two with marks at both ends of the page
DiskPatterns ==
    {Page_new,
     SetByte(SetByte(Page_new, 0, 1), PAGE_SIZE - 1, 254),
     SetByte(SetByte(Page_new, 0, 2), PAGE_SIZE - 1, 255)}

\* storage.rs's tests use neither a pool nor a Database
disk_unused == <<pages, heap, capacity, handles, tables, catalog_path, catalog_file,
                 inserted, failed>>

\* `last` also keeps the page read_page returned and the id allocate_page
\* returned last since the file was opened (-1: none yet)
DiskInit ==
    /\ file = << >>
    /\ next_page_id = DiskManager_open(<< >>)
    /\ pages = << >>
    /\ heap = << >>
    /\ capacity = 0
    /\ handles = {}
    /\ wrote = << >>
    /\ wrote_live = << >>
    /\ last = [op |-> "open", id |-> 0, ok |-> TRUE, page |-> Page_new, allocated |-> 0 - 1]
    /\ tables = << >>
    /\ catalog_path = << >>
    /\ catalog_file = << >>
    /\ inserted = << >>
    /\ failed = FALSE

DiskWritePage ==
    /\ Len(wrote_live) < MaxDiskWrites
    /\ \E page_id \in PageIds, page \in DiskPatterns :
        /\ file' = write_page(file, page_id, page)
        /\ wrote' = Put(wrote, page_id, page)
        /\ wrote_live' = Append(wrote_live, page_id)
        /\ last' = [last EXCEPT !.op = "write_page", !.id = page_id, !.ok = TRUE,
                                !.page = page]
    /\ UNCHANGED <<next_page_id, disk_unused>>

DiskReadPage ==
    /\ \E page_id \in PageIds :
       \E r \in {read_page(file, page_id)} :
        last' = [last EXCEPT !.op = "read_page", !.id = page_id, !.ok = r.ok,
                             !.page = r.page]
    /\ UNCHANGED <<file, next_page_id, wrote, wrote_live, disk_unused>>

DiskAllocatePage ==
    /\ next_page_id < MaxPages
    /\ last' = [last EXCEPT !.op = "allocate_page", !.id = allocate_page(next_page_id),
                            !.ok = TRUE, !.page = Page_new,
                            !.allocated = allocate_page(next_page_id)]
    /\ next_page_id' = allocate_page_next(next_page_id)
    /\ UNCHANGED <<file, wrote, wrote_live, disk_unused>>

\* the DiskManager is dropped and DiskManager::open opens the same file
DiskReopen ==
    /\ next_page_id' = DiskManager_open(file)
    /\ last' = [op |-> "open", id |-> 0, ok |-> TRUE, page |-> Page_new,
                allocated |-> 0 - 1]
    /\ UNCHANGED <<file, wrote, wrote_live, disk_unused>>

DiskNext ==
    \/ DiskWritePage
    \/ DiskReadPage
    \/ DiskAllocatePage
    \/ DiskReopen

SpecDisk == DiskInit /\ [][DiskNext]_vars

\* C11: write_page(id, p) followed by read_page(id) returns p: in every state
\* each page id that was ever written reads back as the last page written to
\* it, whatever was written to other ids or earlier to the same id, and
\* every read_page that was made returned just that.
C11_ReadReturnsLastWrite ==
    /\ \A page_id \in DOMAIN wrote :
           read_page(file, page_id) = [ok |-> TRUE, page |-> wrote[page_id]]
    /\ (last.op = "read_page" /\ last.id \in DOMAIN wrote)
           => (last.ok /\ last.page = wrote[last.id])

\* a page was written, another page was written, the first was overwritten
\* and then read back
C11_Witness ==
    /\ last.op = "read_page"
    /\ Len(wrote_live) = 3
    /\ wrote_live[1] = last.id
    /\ wrote_live[2] # last.id
    /\ wrote_live[3] = last.id
    /\ last.ok
    /\ last.page = wrote[last.id]
    /\ last.page # Page_new
    /\ wrote[wrote_live[2]] # Page_new
    /\ wrote[wrote_live[2]] # last.page

\* C12: allocate_page returns the previous next_page_id, a larger id than
\* the one before it, and adds one to next_page_id; no other operation of an
\* open file changes next_page_id, write_page in particular; after the file
\* is opened again next_page_id is floor(file size / 4096).
C12_AllocateAndReopen ==
    [][ /\ (last'.op = "allocate_page") =>
              /\ last'.id = next_page_id
              /\ last'.id > last.allocated
              /\ next_page_id' = next_page_id + 1
        /\ (last'.op \in {"write_page", "read_page"}) => next_page_id' = next_page_id
        /\ (last'.op = "open") => next_page_id' = (Len(file') * 4096) \div 4096
      ]_vars

\* a second allocate_page of a session made after writes that had already
\* grown the file beyond next_page_id
C12_Witness ==
    /\ last.op = "allocate_page"
    /\ last.id = 1
    /\ next_page_id = 2
    /\ Len(file) = 3
    /\ Len(wrote_live) = 1

-----------------------------------------------------------------------------
(* One slotted page driven directly, as slotted_page.rs's tests drive it:   *)
(* the page is initialised, tuples are added until it is full, tuples are   *)
(* read back by slot id and the next-page link is set.  The page is         *)
(* heap[0]; `inserted` is the sequence of the tuples add_tuple accepted     *)
(* since the last init.                                                     *)

MaxTuples == 3      \* add_tuple calls on a page that succeed

\* a tuple of len bytes: a mark, zeros, 255
TupleOf(len, mark) ==
    [i \in 1 .. len |-> IF i = 1 THEN mark ELSE IF i = len THEN 255 ELSE 0]

\* the empty tuple, a short one, two that fill a page exactly, one that is a
\* byte too long to come second, one that fills an empty page exactly, and
\* one that is a byte too long for it
PageTuples ==
    {<< >>,
     <<1, 0, 255>>,
     TupleOf((PAGE_SIZE - HEADER_SIZE) \div 2 - SLOT_SIZE, 2),
     TupleOf((PAGE_SIZE - HEADER_SIZE) \div 2 - SLOT_SIZE + 1, 3),
     TupleOf(PAGE_SIZE - HEADER_SIZE - SLOT_SIZE, 4),
     TupleOf(PAGE_SIZE - HEADER_SIZE - SLOT_SIZE + 1, 5)}

ThePage == heap[0]

page_unused == <<file, next_page_id, pages, capacity, handles, wrote, wrote_live,
                 tables, catalog_path, catalog_file, failed>>

\* let mut page = Page::new(); SlottedPage::new(&mut page)
SlottedNew ==
    /\ file = << >>
    /\ next_page_id = 0
    /\ pages = << >>
    /\ heap = (0 :> Page_new)
    /\ capacity = 0
    /\ handles = {}
    /\ wrote = << >>
    /\ wrote_live = << >>
    /\ last = [op |-> "new", id |-> 0, ok |-> TRUE, arg |-> << >>]
    /\ tables = << >>
    /\ catalog_path = << >>
    /\ catalog_file = << >>
    /\ inserted = << >>
    /\ failed = FALSE

\* init, which the program calls on the pages create_page returned and on
\* no other
SlottedInit ==
    /\ last.op = "new"
    /\ heap' = (0 :> init(ThePage))
    /\ inserted' = << >>
    /\ last' = [op |-> "init", id |-> 0, ok |-> TRUE, arg |-> << >>]
    /\ UNCHANGED page_unused

SlottedAddTuple ==
    /\ last.op # "new"
    /\ Len(inserted) < MaxTuples
    /\ \E tuple_data \in PageTuples :
       \E r \in {add_tuple(ThePage, tuple_data)} :
        /\ heap' = (0 :> r.page)
        /\ inserted' = IF r.ok THEN Append(inserted, tuple_data) ELSE inserted
        /\ last' = [op |-> "add_tuple", id |-> r.slot_id, ok |-> r.ok, arg |-> tuple_data]
    /\ UNCHANGED page_unused

SlottedGetTuple ==
    /\ last.op # "new"
    /\ \E slot_id \in (0 .. MaxTuples) \cup {65535} :
       \E r \in {get_tuple(ThePage, slot_id)} :
        last' = [op |-> "get_tuple", id |-> slot_id, ok |-> r.some, arg |-> r.bytes]
    /\ UNCHANGED <<heap, inserted, page_unused>>

SlottedSetNextPageId ==
    /\ last.op # "new"
    /\ \E page_id \in {1, NO_NEXT_PAGE} :
        /\ heap' = (0 :> set_next_page_id(ThePage, page_id))
        /\ last' = [op |-> "set_next_page_id", id |-> page_id, ok |-> TRUE, arg |-> << >>]
    /\ UNCHANGED <<inserted, page_unused>>

PageNext ==
    \/ SlottedInit
    \/ SlottedAddTuple
    \/ SlottedGetTuple
    \/ SlottedSetNextPageId

SpecPage == SlottedNew /\ [][PageNext]_vars

\* C13: after init and after every successful add_tuple,
\* 8 + 4 * num_slots <= free_space_pointer <= 4096, every slot's offset and
\* offset + length lie in [free_space_pointer, 4096], and the payload of
\* slot i + 1 ends at or below the start of the payload of slot i.
C13_SlottedPageInvariants ==
    LET n == num_slots(ThePage)
        fsp == free_space_pointer(ThePage)
        \* the slot entry i: the offset and the length of its payload
        SlotOffset(page, i) == read_u16(page, 8 + 4 * i)
        SlotLength(page, i) == read_u16(page, 8 + 4 * i + 2)
    IN  (last.op # "new") =>
        /\ 8 + 4 * n <= fsp
        /\ fsp <= 4096
        /\ \A i \in 0 .. (n - 1) :
              /\ fsp <= SlotOffset(ThePage, i)
              /\ SlotOffset(ThePage, i) <= 4096
              /\ fsp <= SlotOffset(ThePage, i) + SlotLength(ThePage, i)
              /\ SlotOffset(ThePage, i) + SlotLength(ThePage, i) <= 4096
        /\ \A i \in 0 .. (n - 2) :
              SlotOffset(ThePage, i + 1) + SlotLength(ThePage, i + 1)
                  <= SlotOffset(ThePage, i)

\* a successful add_tuple left the page exactly full, with two payloads
C13_Witness ==
    /\ last.op = "add_tuple"
    /\ last.ok
    /\ num_slots(ThePage) = 2
    /\ free_space_pointer(ThePage) = 8 + 4 * 2
    /\ get_tuple(ThePage, 0).bytes # << >>
    /\ get_tuple(ThePage, 1).bytes # << >>

\* C14: add_tuple(bytes) fails if and only if
\* free_space_pointer - (8 + 4 * num_slots) < 4 + len(bytes), and a failed
\* add_tuple leaves the whole page as it was.
C14_PageFullIffNoRoom ==
    [][ (last'.op = "add_tuple") =>
            /\ (~last'.ok) <=>
                    (free_space_pointer(ThePage) - (8 + 4 * num_slots(ThePage))
                        < 4 + Len(last'.arg))
            /\ (~last'.ok) => heap' = heap
      ]_vars

\* an add_tuple failed for one byte on a page with tuples and a link
C14_Witness ==
    /\ last.op = "add_tuple"
    /\ ~last.ok
    /\ num_slots(ThePage) >= 1
    /\ free_space_pointer(ThePage) - (8 + 4 * num_slots(ThePage)) = 4 + Len(last.arg) - 1
    /\ next_page_id_of(ThePage) # NO_NEXT_PAGE

\* C15: the k-th successful add_tuple returns slot id k - 1; get_tuple(i)
\* returns the bytes given to the add_tuple that returned i, whatever
\* add_tuple and set_next_page_id calls came later; get_tuple(slot_id)
\* returns nothing when slot_id >= num_slots.
C15_SlotsDenseAndStable ==
    (last.op # "new") =>
    /\ num_slots(ThePage) = Len(inserted)
    /\ \A i \in 1 .. Len(inserted) :
           get_tuple(ThePage, i - 1) = [some |-> TRUE, bytes |-> inserted[i]]
    /\ \A slot_id \in {Len(inserted), Len(inserted) + 1, 65535} :
           ~get_tuple(ThePage, slot_id).some
    /\ (last.op = "add_tuple" /\ last.ok) => last.id = Len(inserted) - 1
    /\ (last.op = "get_tuple") =>
           /\ last.ok <=> last.id < Len(inserted)
           /\ last.ok => last.arg = inserted[last.id + 1]

\* slot 0 read back after more tuples and a link were added
C15_Witness ==
    /\ last.op = "get_tuple"
    /\ last.ok
    /\ last.id = 0
    /\ Len(inserted) = MaxTuples
    /\ Len(last.arg) > 2000
    /\ last.arg = inserted[1]
    /\ next_page_id_of(ThePage) # NO_NEXT_PAGE

-----------------------------------------------------------------------------
(* The row codec driven directly, as database.rs's tests drive it: a Row is *)
(* built value by value and encoded, the buffer is decoded; buffers are     *)
(* also cut short or given a leading byte that is no type tag.  `inserted`  *)
(* is the Row, `wrote` the buffer; last.made tells how the buffer was made  *)
(* and last.values is what from_bytes returned.                             *)

MaxValues == 3      \* values of a Row

CodecValues ==
    {Long(i64_of(0)), Long(i64_of(0 - 2)), Long(I64_MIN), Long(I64_MAX),
     Text(<< >>), Text(<<2, 1, 65>>), Bool(TRUE), Bool(FALSE)}

\* leading bytes that are no type tag
BadTags == {3, 99, 255}

\* the lengths of the encodings of the prefixes of a row: the offsets at
\* which one value ends and the next begins
RECURSIVE Boundaries(_)
Boundaries(values) ==
    IF values = << >> THEN {0}
    ELSE {Len(to_bytes(values))} \cup Boundaries(SubSeq(values, 1, Len(values) - 1))

codec_unused == <<file, next_page_id, pages, heap, capacity, handles, wrote_live,
                  tables, catalog_path, catalog_file, failed>>

CodecInit ==
    /\ file = << >>
    /\ next_page_id = 0
    /\ pages = << >>
    /\ heap = << >>
    /\ capacity = 0
    /\ handles = {}
    /\ wrote = << >>
    /\ wrote_live = << >>
    /\ last = [op |-> "new", ok |-> TRUE, values |-> << >>, made |-> "new"]
    /\ tables = << >>
    /\ catalog_path = << >>
    /\ catalog_file = << >>
    /\ inserted = << >>
    /\ failed = FALSE

\* Row { values: vec![...] }, one more value
CodecPush ==
    /\ Len(inserted) < MaxValues
    /\ last.op \in {"new", "push"}
    /\ \E value \in CodecValues : inserted' = Append(inserted, value)
    /\ last' = [last EXCEPT !.op = "push"]
    /\ UNCHANGED <<wrote, codec_unused>>

CodecToBytes ==
    /\ last.op \in {"new", "push"}
    /\ wrote' = to_bytes(inserted)
    /\ last' = [last EXCEPT !.op = "to_bytes", !.made = "to_bytes"]
    /\ UNCHANGED <<inserted, codec_unused>>

\* the encoding cut inside a value
CodecTruncate ==
    /\ last.op = "to_bytes"
    /\ \E k \in (0 .. Len(wrote)) \ Boundaries(inserted) :
        wrote' = SubSeq(wrote, 1, k)
    /\ last' = [last EXCEPT !.op = "truncate", !.made = "truncated"]
    /\ UNCHANGED <<inserted, codec_unused>>

\* a byte that is no type tag put before the encoding
CodecBadTag ==
    /\ last.op = "to_bytes"
    /\ \E tag \in BadTags : wrote' = <<tag>> \o wrote
    /\ last' = [last EXCEPT !.op = "bad_tag", !.made = "bad_tag"]
    /\ UNCHANGED <<inserted, codec_unused>>

CodecFromBytes ==
    /\ last.op \in {"to_bytes", "truncate", "bad_tag"}
    /\ \E r \in {from_bytes(wrote)} :
        last' = [last EXCEPT !.op = "from_bytes", !.ok = r.ok, !.values = r.values]
    /\ UNCHANGED <<inserted, wrote, codec_unused>>

CodecNext ==
    \/ CodecPush
    \/ CodecToBytes
    \/ CodecTruncate
    \/ CodecBadTag
    \/ CodecFromBytes

SpecCodec == CodecInit /\ [][CodecNext]_vars

\* C16: from_bytes(to_bytes(row)) succeeds and yields the values of the row
\* in the same order, for every row of Long, Text and Bool values: the empty
\* row, empty text, i64::MIN, i64::MAX and both booleans among them.
C16_CodecRoundTrip ==
    /\ from_bytes(to_bytes(inserted)) = [ok |-> TRUE, values |-> inserted]
    /\ (last.op = "from_bytes" /\ last.made = "to_bytes")
           => (last.ok /\ last.values = inserted)

\* a row with i64::MIN, i64::MAX and an empty text was encoded and decoded
C16_Witness ==
    /\ last.op = "from_bytes"
    /\ last.made = "to_bytes"
    /\ last.ok
    /\ last.values = <<Long(I64_MIN), Text(<< >>), Long(I64_MAX)>>
    /\ inserted = last.values
    /\ Len(wrote) = 23

\* C17: from_bytes returns an error for every buffer that starts with a byte
\* that is no tag, and for every valid encoding cut inside a value (after a
\* tag, inside an integer, inside a text length, inside a text payload).
C17_CodecRejects ==
    /\ \A tag \in BadTags : ~from_bytes(<<tag>> \o to_bytes(inserted)).ok
    /\ \A k \in (0 .. Len(to_bytes(inserted))) \ Boundaries(inserted) :
           ~from_bytes(SubSeq(to_bytes(inserted), 1, k)).ok
    /\ (last.op = "from_bytes" /\ last.made \in {"truncated", "bad_tag"}) => ~last.ok

\* the encoding of a row that ends with a text was cut inside the text's
\* payload, after bytes that read as a whole Bool, and decoded
C17_Witness ==
    /\ last.op = "from_bytes"
    /\ last.made = "truncated"
    /\ ~last.ok
    /\ Len(inserted) = 2
    /\ inserted[2] = Text(<<2, 1, 65>>)
    /\ Len(wrote) = Len(to_bytes(inserted)) - 1

-----------------------------------------------------------------------------
(* Statements given to execute one after another, those that fail among     *)
(* them: CREATE TABLE of a table that exists, INSERT into and SELECT from a *)
(* table that does not, a NULL value, an unsupported statement, and         *)
(* statements during which the catalog file cannot be written.  `last`      *)
(* keeps the statement's kind and table and the error message.              *)

\* one-row INSERT statements have the row kinds 1 and 3 (a NULL)
Statements ==
    {[kind |-> "CreateTable", table |-> t, columns |-> Columns(t)] : t \in TableNames}
    \cup {[kind |-> "Insert", table |-> t, rows |-> <<RowExprs(k)>>, kinds |-> <<k>>]
             : t \in TableNames, k \in {1, 3}}
    \cup {[kind |-> "Query", table |-> t] : t \in TableNames}
    \cup {[kind |-> "Drop", table |-> t] : t \in TableNames}

Execute ==
    \E stmt \in Statements, ord \in HashOrders(BP, MaxPages), io \in {"ok", "save_catalog"} :
    \E order \in SaveOrders(DOMAIN tables
                    \cup (IF stmt.kind = "CreateTable" THEN {stmt.table} ELSE {})) :
    \E r \in {execute(DB, stmt, ord, order, io)} :
    \E accepted \in {IF stmt.kind = "Insert" /\ stmt.table \in DOMAIN tables
                      THEN SubSeq(stmt.kinds, 1, r.inserted_count) ELSE << >>} :
        /\ r.db.bp.next_page_id <= MaxPages
        /\ Rows(inserted) + Len(accepted) <= MaxRows
        /\ SetDB(r.db)
        /\ inserted' = [t \in DOMAIN r.db.tables |->
                            IF t \notin DOMAIN inserted THEN << >>
                            ELSE IF t = stmt.table THEN inserted[t] \o accepted
                            ELSE inserted[t]]
        /\ failed' = (failed \/ ~r.ok)
        /\ last' = [op |-> "execute", id |-> 0, ok |-> r.ok,
                    msg |-> IF "msg" \in DOMAIN r THEN r.msg ELSE << >>,
                    kind |-> stmt.kind, table |-> stmt.table, io |-> io]
        /\ UNCHANGED pool_history

SpecExecute == Init /\ [][Execute]_vars

\* what a statement can change: the pool, the database file, the allocator,
\* the catalog and the catalog file
db_state == <<file, next_page_id, pages, heap, capacity, tables, catalog_path, catalog_file>>

\* C18: CREATE TABLE with a name already in the catalog returns the error
\* "Table '<name>' already exists" and changes nothing: no page is
\* allocated, no table's schema, first_page_id, last_page_id or rows change,
\* nothing is written to the database file or to the catalog file.
C18_CreateExistingChangesNothing ==
    [][ (last'.kind = "CreateTable" /\ last'.table \in DOMAIN tables) =>
            /\ ~last'.ok
            /\ last'.msg = <<84, 97, 98, 108, 101, 32, 39>> \o last'.table
                    \o <<39, 32, 97, 108, 114, 101, 97, 100, 121, 32,
                         101, 120, 105, 115, 116, 115>>
            /\ db_state' = db_state
      ]_vars

\* CREATE TABLE failed for a table that exists and holds two rows
C18_Witness ==
    /\ last.op = "execute"
    /\ last.kind = "CreateTable"
    /\ ~last.ok
    /\ last.msg = already_exists(last.table)
    /\ last.table \in DOMAIN tables
    /\ Len(inserted[last.table]) = 2
    /\ DOMAIN tables = TableNames

\* C19: INSERT into and SELECT from a table name that is not in the catalog
\* return the error "Table '<name>' does not exist" and leave the catalog,
\* the buffer pool and the disk allocator as they were.
C19_MissingTableChangesNothing ==
    [][ (last'.kind \in {"Insert", "Query"} /\ last'.table \notin DOMAIN tables) =>
            /\ ~last'.ok
            /\ last'.msg = <<84, 97, 98, 108, 101, 32, 39>> \o last'.table
                    \o <<39, 32, 100, 111, 101, 115, 32, 110, 111, 116, 32,
                         101, 120, 105, 115, 116>>
            /\ db_state' = db_state
      ]_vars

\* SELECT failed for a table that does not exist, beside a table with rows
C19_Witness ==
    /\ last.op = "execute"
    /\ last.kind = "Query"
    /\ ~last.ok
    /\ last.msg = does_not_exist(last.table)
    /\ last.table \notin DOMAIN tables
    /\ \E t \in DOMAIN tables : Len(inserted[t]) = 2
    /\ pages # << >>

\* C20: an INSERT or CREATE TABLE statement that returns an error writes
\* neither the catalog file nor, without an eviction, any page to the
\* database file (the pool of these behaviours never evicts when it has a
\* catalog file).
C20_ErrorNeitherFlushesNorSaves ==
    [][ (last'.kind \in {"Insert", "CreateTable"} /\ ~last'.ok /\ catalog_path # << >>) =>
            /\ catalog_file' = catalog_file
            /\ file' = file
      ]_vars

-----------------------------------------------------------------------------
(* SpecInsert: CREATE TABLE and INSERT statements whose rows go from a few   *)
(* bytes to one byte more than an empty page holds, against the pools of    *)
(* Init.  The rows go to table t; table u holds a page beside it.  `last`   *)
(* keeps the statement, its result and the trace of its rows.               *)

\* the kinds of the value rows of one INSERT: every single row, and the
\* pairs of rows of which the second goes to another page than the first,
\* fails, or follows a row that filled its page
AppendKinds ==
    {<<k>> : k \in 1 .. 5} \cup {<<2, 2>>, <<2, 3>>, <<2, 5>>, <<2, 7>>, <<4, 1>>}

AppendStatements ==
    {[kind |-> "CreateTable", table |-> t, columns |-> Columns(t), kinds |-> << >>]
        : t \in TableNames}
    \cup {[kind |-> "Insert", table |-> <<116>>, kinds |-> ks,
           rows |-> [i \in 1 .. Len(ks) |-> RowExprs(ks[i])]]
             : ks \in AppendKinds}

ExecuteAppend ==
    \E stmt \in AppendStatements, ord \in HashOrders(BP, MaxPages) :
    \E order \in SaveOrders(DOMAIN tables
                    \cup (IF stmt.kind = "CreateTable" THEN {stmt.table} ELSE {})) :
    \E r \in {execute(DB, stmt, ord, order, "ok")} :
    \E accepted \in {IF stmt.kind = "Insert" /\ stmt.table \in DOMAIN tables
                      THEN SubSeq(stmt.kinds, 1, r.inserted_count) ELSE << >>} :
        /\ r.db.bp.next_page_id <= MaxPages
        /\ Rows(inserted) + Len(accepted) <= MaxRows
        /\ SetDB(r.db)
        /\ inserted' = [t \in DOMAIN r.db.tables |->
                            IF t \notin DOMAIN inserted THEN << >>
                            ELSE IF t = stmt.table THEN inserted[t] \o accepted
                            ELSE inserted[t]]
        /\ failed' = (failed \/ ~r.ok)
        /\ last' = [op |-> "execute", id |-> 0, ok |-> r.ok,
                    msg |-> IF "msg" \in DOMAIN r THEN r.msg ELSE << >>,
                    kind |-> stmt.kind, table |-> stmt.table, kinds |-> stmt.kinds,
                    trace |-> IF "trace" \in DOMAIN r THEN r.trace ELSE << >>]
        /\ UNCHANGED pool_history

SpecInsert == Init /\ [][ExecuteAppend]_vars

\* the page ids of the chain from id as the pool bp sees it, while it stays
\* below the allocator's next id npid and for at most `fuel` pages
RECURSIVE Chain(_, _, _, _)
Chain(bp, npid, id, fuel) ==
    IF fuel = 0 \/ id < 0 \/ id >= npid THEN << >>
    ELSE <<id>> \o Chain(bp, npid, next_page_id_of(PageIn(bp, id)), fuel - 1)

\* the pages some table's chain or catalog entry refers to
Referenced(bp, npid, tbls) ==
    UNION {{tbls[t].first_page_id, tbls[t].last_page_id}
             \cup {Chain(bp, npid, tbls[t].first_page_id, Fuel)[i]
                     : i \in 1 .. Len(Chain(bp, npid, tbls[t].first_page_id, Fuel))}
           : t \in DOMAIN tbls}

\* C21: an INSERT row whose encoding is longer than 4084 bytes fails with
\* "Tuple too large for page" and a row of at most 4084 bytes never does;
\* after the failure the catalog and every page that existed are as they
\* were before the row (the tail's next_page_id is still NO_NEXT_PAGE), and
\* the page allocated for the row is in no chain and no catalog entry.
C21_TupleTooLarge ==
    [][ (last'.kind = "Insert" /\ last'.table \in DOMAIN tables) =>
          LET TooLarge == <<84, 117, 112, 108, 101, 32, 116, 111, 111, 32, 108, 97, 114,
                            103, 101, 32, 102, 111, 114, 32, 112, 97, 103, 101>>
              IsTooLarge == /\ Len(last'.msg) >= Len(TooLarge)
                            /\ SubSeq(last'.msg, 1, Len(TooLarge)) = TooLarge
              row == Len(last'.trace) + 1
          IN  /\ (\E i \in 1 .. Len(last'.kinds) : last'.kinds[i] = 5)
                    => (~last'.ok /\ IsTooLarge)
              /\ IsTooLarge => (~last'.ok /\ last'.kinds[row] = 5)
              /\ IsTooLarge =>
                    /\ tables' = tables
                    /\ next_page_id' - 1 \notin Referenced(BP', next_page_id', tables')
                    /\ \A t \in DOMAIN tables :
                        \E c \in {Chain(BP', next_page_id', tables[t].first_page_id, Fuel)} :
                          /\ c # << >>
                          /\ next_page_id_of(PageIn(BP', c[Len(c)])) = NO_NEXT_PAGE
              /\ (IsTooLarge /\ row = 1) =>
                    /\ next_page_id' = next_page_id + 1
                    /\ \A id \in 0 .. (next_page_id - 1) : PageIn(BP', id) = PageIn(BP, id)
                    /\ \A t \in DOMAIN tables :
                          Chain(BP', next_page_id', tables[t].first_page_id, Fuel)
                              = Chain(BP, next_page_id, tables[t].first_page_id, Fuel)
      ]_vars

\* a one-row INSERT of 4085 bytes failed on a table whose chain has two
\* pages; its page 2 is allocated and in no chain
C21_Witness ==
    /\ last.op = "execute"
    /\ last.kind = "Insert"
    /\ ~last.ok
    /\ last.kinds = <<5>>
    /\ last.msg = <<84, 117, 112, 108, 101, 32, 116, 111, 111, 32, 108, 97, 114, 103,
                    101, 32, 102, 111, 114, 32, 112, 97, 103, 101, 58, 32,
                    80, 97, 103, 101, 32, 102, 117, 108, 108>>
    /\ last.table \in DOMAIN tables
    /\ Chain(BP, next_page_id, tables[last.table].first_page_id, Fuel) = <<0, 1>>
    /\ next_page_id = 3
    /\ 2 \notin Referenced(BP, next_page_id, tables)

\* C28: when add_tuple fails on a page whose next_page_id is NO_NEXT_PAGE and
\* the tuple fits an empty page, the append allocates a fresh page,
\* initialises it, stores the tuple in its slot 0, sets the old tail's
\* next_page_id to the new id and returns the new id; afterwards the new
\* page's next_page_id is NO_NEXT_PAGE and the old tail differs from what it
\* was in its next_page_id only.  For pools of capacity 1 (create_page evicts
\* the old tail, the re-fetch evicts the new page) and of capacity 100.
C28_PageFullStep ==
    [][ (/\ last'.kind = "Insert"
         /\ last'.table \in DOMAIN tables
         /\ Len(last'.kinds) = 1
         /\ last'.kinds[1] # 3) =>
          \A old_tail \in {tables[last'.table].last_page_id}, new_id \in {next_page_id} :
          \A bytes \in {to_bytes(exprs_to_values(RowExprs(last'.kinds[1]), << >>).values)} :
          \A tail \in {PageIn(BP, old_tail)}, fresh \in {PageIn(BP', new_id)} :
              (/\ ~add_tuple(tail, bytes).ok
               /\ next_page_id_of(tail) = NO_NEXT_PAGE
               /\ Len(bytes) <= PAGE_SIZE - HEADER_SIZE - SLOT_SIZE) =>
                  /\ last'.ok
                  /\ last'.trace = <<[from |-> old_tail, to |-> new_id]>>
                  /\ next_page_id' = new_id + 1
                  /\ num_slots(fresh) = 1
                  /\ get_tuple(fresh, 0) = [some |-> TRUE, bytes |-> bytes]
                  /\ next_page_id_of(fresh) = NO_NEXT_PAGE
                  /\ fresh = add_tuple(init(Page_new), bytes).page
                  /\ next_page_id_of(PageIn(BP', old_tail)) = new_id
                  /\ PageIn(BP', old_tail) = set_next_page_id(tail, new_id)
      ]_vars

\* a row went from the full page 0 to the new page 1 of a pool of capacity 1:
\* page 0 is resident again and page 1 was written out by its eviction
C28_Witness ==
    /\ last.op = "execute"
    /\ last.kind = "Insert"
    /\ last.ok
    /\ last.trace = <<[from |-> 0, to |-> 1]>>
    /\ capacity = 1
    /\ num_slots(PageIn(BP, 0)) > 0
    /\ next_page_id_of(PageIn(BP, 0)) = 1
    /\ num_slots(PageIn(BP, 1)) = 1
    /\ next_page_id_of(PageIn(BP, 1)) = NO_NEXT_PAGE

\* C29: after a successful INSERT of one or several rows the table's catalog
\* last_page_id is the page that holds the last inserted tuple (in its last
\* slot); the first row's append starts from the catalog's last_page_id and
\* every later row's append from the page the previous row's append returned.
C29_LastPageHoldsLastTuple ==
    [][ (last'.kind = "Insert" /\ last'.table \in DOMAIN tables /\ last'.ok) =>
          \A n \in {Len(last'.kinds)}, trace \in {last'.trace} :
          \A bytes \in {to_bytes(exprs_to_values(RowExprs(last'.kinds[n]), << >>).values)} :
          \A page \in {PageIn(BP', tables'[last'.table].last_page_id)} :
              /\ Len(trace) = n
              /\ trace[1].from = tables[last'.table].last_page_id
              /\ \A i \in 2 .. n : trace[i].from = trace[i - 1].to
              /\ tables'[last'.table].last_page_id = trace[n].to
              /\ num_slots(page) >= 1
              /\ get_tuple(page, num_slots(page) - 1) = [some |-> TRUE, bytes |-> bytes]
      ]_vars

\* a two-row INSERT whose first row went from page 0 to a new page 1 and
\* whose second row went from page 1 to a new page 2, the table's last page
C29_Witness ==
    /\ last.op = "execute"
    /\ last.kind = "Insert"
    /\ last.ok
    /\ last.kinds = <<2, 2>>
    /\ last.trace = <<[from |-> 0, to |-> 1], [from |-> 1, to |-> 2]>>
    /\ tables[last.table].last_page_id = 2
    /\ num_slots(PageIn(BP, 2)) = 1

-----------------------------------------------------------------------------
(* A claim about eviction, checked under SpecPool *)

\* C30: resident entries leave the pool only in a fetch_page of a page that
\* is not resident or in a create_page, in both only when the pool holds at
\* least `capacity` pages, and then exactly one entry leaves; a fetch_page
\* of a resident page leaves the resident set, the file and the allocator as
\* they were.  (A reopen makes a new pool.)
C30_EvictionOnlyWhenFull ==
    [][ last'.op # "reopen" =>
          \A evicted \in {DOMAIN pages \ DOMAIN pages'} :
              /\ evicted # {} =>
                    /\ last'.op \in {"fetch_page", "create_page"}
                    /\ last'.op = "fetch_page" => last'.id \notin DOMAIN pages
                    /\ Cardinality(DOMAIN pages) >= capacity
                    /\ Cardinality(evicted) = 1
              /\ (last'.op = "fetch_page" /\ last'.id \in DOMAIN pages) =>
                    /\ last'.ok
                    /\ pages' = pages
                    /\ file' = file
                    /\ next_page_id' = next_page_id
      ]_vars

\* a fetch_page miss on a full pool of capacity 1 put its page in the place
\* of the page a caller still holds a handle of
C30_Witness ==
    /\ last.op = "fetch_page"
    /\ last.ok
    /\ capacity = 1
    /\ DOMAIN pages = {last.id}
    /\ \E h \in handles : h.stale /\ h.id # last.id

-----------------------------------------------------------------------------
(* protocol.rs.  A Response is [variant, content] with variant "Ok" or       *)
(* "Error"; a stream is the sequence of the bytes not yet read.              *)

\* the terminator line, without its newline
END_MARKER == <<69, 78, 68>>

\* Response::to_bytes: "OK\n{}\nEND\n" or "ERROR\n{}\nEND\n"
Response_to_bytes(r) ==
    (IF r.variant = "Ok" THEN <<79, 75>> ELSE <<69, 82, 82, 79, 82>>)
        \o <<CharNewline>> \o r.content \o <<CharNewline>> \o END_MARKER \o <<CharNewline>>

\* BufRead::read_line: the bytes up to and with the first newline, or all of
\* them when there is none; returns [line, rest]
read_line(stream) ==
    LET Upto(n) == [line |-> SubSeq(stream, 1, n), rest |-> SubSeq(stream, n + 1, Len(stream))]
    IN  IF \A i \in 1 .. Len(stream) : stream[i] # CharNewline THEN Upto(Len(stream))
        ELSE Upto(CHOOSE i \in 1 .. Len(stream) :
                    stream[i] = CharNewline /\ \A j \in 1 .. (i - 1) : stream[j] # CharNewline)

\* the loop of from_reader: returns [ok, content, rest], ok FALSE for
\* "Connection closed before END marker"
RECURSIVE read_content(_, _)
read_content(stream, content) ==
    LET Read(rl) ==
            IF Len(rl.line) = 0 THEN [ok |-> FALSE, content |-> content, rest |-> rl.rest]
            ELSE IF trim(rl.line) = END_MARKER
            THEN [ok |-> TRUE, content |-> content, rest |-> rl.rest]
            ELSE read_content(rl.rest, content \o rl.line)
    IN  Read(read_line(stream))

\* Response::from_reader: returns [ok, response, rest], rest the stream
\* afterwards
from_reader(stream) ==
    LET Pop(content) ==
            IF content # << >> /\ content[Len(content)] = CharNewline
            THEN SubSeq(content, 1, Len(content) - 1) ELSE content
        Matched(first_line, c) ==
            IF ~c.ok THEN [ok |-> FALSE, response |-> [variant |-> "Ok", content |-> << >>],
                           rest |-> c.rest]
            ELSE IF first_line = <<79, 75>>
            THEN [ok |-> TRUE, response |-> [variant |-> "Ok", content |-> Pop(c.content)],
                  rest |-> c.rest]
            ELSE IF first_line = <<69, 82, 82, 79, 82>>
            THEN [ok |-> TRUE, response |-> [variant |-> "Error", content |-> Pop(c.content)],
                  rest |-> c.rest]
            ELSE [ok |-> FALSE, response |-> [variant |-> "Ok", content |-> << >>],
                  rest |-> c.rest]
        First(rl) ==
            IF Len(rl.line) = 0
            THEN [ok |-> FALSE, response |-> [variant |-> "Ok", content |-> << >>],
                  rest |-> rl.rest]
            ELSE Matched(trim(rl.line), read_content(rl.rest, << >>))
    IN  First(read_line(stream))

-----------------------------------------------------------------------------
(* SpecProtocol: a writer puts responses on a stream (`wrote`) and a reader  *)
(* takes them off with from_reader; `wrote_live` has the responses written   *)
(* and not yet read, in order, and `inserted` counts the responses written.  *)

MaxResponses == 2  \* responses written in one behaviour
MaxLines == 2      \* lines of a response's content

\* the lines of the contents: "", "a", "END", " END", "END " and "ENDS"
ContentLines ==
    {<< >>, <<97>>, END_MARKER, <<CharSpace>> \o END_MARKER, END_MARKER \o <<CharSpace>>,
     END_MARKER \o <<83>>}

Responses ==
    {[variant |-> v, content |-> join(ls, <<CharNewline>>)]
        : v \in {"Ok", "Error"},
          ls \in UNION {[1 .. n -> ContentLines] : n \in 1 .. MaxLines}}

protocol_unused ==
    <<file, next_page_id, pages, heap, capacity, handles, tables, catalog_path,
      catalog_file, failed>>

ProtocolInit ==
    /\ file = << >>
    /\ next_page_id = 0
    /\ pages = << >>
    /\ heap = << >>
    /\ capacity = 0
    /\ handles = {}
    /\ tables = << >>
    /\ catalog_path = << >>
    /\ catalog_file = << >>
    /\ inserted = 0
    /\ failed = FALSE
    /\ wrote = << >>
    /\ wrote_live = << >>
    /\ last = [op |-> "new", id |-> 0, ok |-> TRUE]

\* write_response
ProtocolWrite ==
    \E r \in Responses :
        /\ inserted < MaxResponses
        /\ inserted' = inserted + 1
        /\ wrote' = wrote \o Response_to_bytes(r)
        /\ wrote_live' = Append(wrote_live, r)
        /\ last' = [op |-> "write", id |-> 0, ok |-> TRUE]
        /\ UNCHANGED protocol_unused

\* Response::from_reader on the stream
ProtocolRead ==
    \E r \in {from_reader(wrote)} :
        /\ wrote # << >>
        /\ wrote' = r.rest
        /\ wrote_live' = IF wrote_live = << >> THEN << >> ELSE Tail(wrote_live)
        /\ last' = [op |-> "read", id |-> 0, ok |-> r.ok, response |-> r.response]
        /\ UNCHANGED <<protocol_unused, inserted>>

ProtocolNext ==
    \/ ProtocolWrite
    \/ ProtocolRead

SpecProtocol == ProtocolInit /\ [][ProtocolNext]_vars

\* C25: for every response whose content has no line equal to END (empty,
\* one line or several lines), from_reader on the bytes of to_bytes returns
\* the same variant and the same content and consumes exactly the bytes of
\* that response.
C25_ProtocolRoundTrip ==
    [][ (/\ last'.op = "read"
         /\ wrote_live # << >>
         /\ wrote = concat([i \in 1 .. Len(wrote_live) |-> Response_to_bytes(wrote_live[i])])
         /\ \A ls \in {split(Head(wrote_live).content, CharNewline)} :
                \A i \in 1 .. Len(ls) : ls[i] # END_MARKER) =>
            /\ last'.ok
            /\ last'.response = Head(wrote_live)
            /\ wrote' = concat([i \in 1 .. Len(wrote_live') |->
                                    Response_to_bytes(wrote_live'[i])])
      ]_vars

-----------------------------------------------------------------------------
(* server.rs.  A query is [text, parse]: the trimmed line read_query         *)
(* returned and what Parser::parse_sql makes of it, [ok, statements, err].   *)
(* A statement is executed with the order `ord` of the pool's HashMap.       *)

\* the Ok(String) of a statement that succeeded, r what its handler
\* returned: "Table '{}' created", "Inserted {} row(s)", or the output of
\* SELECT
ok_message(stmt, r) ==
    IF stmt.kind = "CreateTable"
    THEN <<84, 97, 98, 108, 101, 32, 39>> \o stmt.table
            \o <<39, 32, 99, 114, 101, 97, 116, 101, 100>>
    ELSE IF stmt.kind = "Insert"
    THEN <<73, 110, 115, 101, 114, 116, 101, 100, 32>> \o Decimal(r.inserted_count)
            \o <<32, 114, 111, 119, 40, 115, 41>>
    ELSE r.output

\* handle_client, "Parse and execute SQL": the loop over the statements of
\* one query; returns [db, has_error, error_msg, results, executed], executed
\* the results (TRUE for Ok) of the statements that were executed, in order.
\* (An error of the file system has the text the operating system gives it;
\* it stands as "?".)
RECURSIVE execute_all(_, _, _, _, _)
execute_all(db, statements, ord, results, executed) ==
    LET Executed(stmt, r) ==
            IF r.ok
            THEN execute_all(r.db, Tail(statements), ord,
                             Append(results, ok_message(stmt, r)), Append(executed, TRUE))
            ELSE [db |-> r.db, has_error |-> TRUE,
                  error_msg |-> IF "msg" \in DOMAIN r THEN r.msg ELSE <<63>>,
                  results |-> results, executed |-> Append(executed, FALSE)]
        Next1(stmt) ==
            Executed(stmt,
                execute(db, stmt, ord,
                        CHOOSE o \in TableOrders(DOMAIN db.tables
                            \cup (IF stmt.kind = "CreateTable" THEN {stmt.table} ELSE {})) :
                            TRUE,
                        "ok"))
    IN  IF statements = << >>
        THEN [db |-> db, has_error |-> FALSE, error_msg |-> << >>,
              results |-> results, executed |-> executed]
        ELSE Next1(Head(statements))

\* handle_client, from "Handle special commands" to write_response, for the
\* query read; `order` is the order of db.tables.keys().  Returns
\* [db, response, break, executed]; break: the loop ends after the response
serve_query(db, query, ord, order) ==
    LET to_lowercase(str) ==
            [i \in 1 .. Len(str) |-> IF str[i] >= 65 /\ str[i] <= 90 THEN str[i] + 32
                                     ELSE str[i]]
        Ok(msg) == [variant |-> "Ok", content |-> msg]
        Error(msg) == [variant |-> "Error", content |-> msg]
        Batch(b) ==
            [db |-> b.db,
             response |-> IF b.has_error THEN Error(b.error_msg)
                          ELSE Ok(join(b.results, <<CharNewline>>)),
             break |-> FALSE, executed |-> b.executed]
        Command(lower) ==
            IF lower = <<101, 120, 105, 116>> \/ lower = <<113, 117, 105, 116>>
            THEN [db |-> db, response |-> Ok(<<71, 111, 111, 100, 98, 121, 101>>),
                  break |-> TRUE, executed |-> << >>]
            ELSE IF lower = <<116, 97, 98, 108, 101, 115>>
            THEN [db |-> db,
                  response |-> IF DOMAIN db.tables = {}
                               THEN Ok(<<78, 111, 32, 116, 97, 98, 108, 101, 115>>)
                               ELSE Ok(join(order, <<CharNewline>>)),
                  break |-> FALSE, executed |-> << >>]
            ELSE IF lower = <<102, 108, 117, 115, 104>>
            THEN [db |-> [db EXCEPT !.bp = flush_all(db.bp)],
                  response |-> Ok(<<65, 108, 108, 32, 112, 97, 103, 101, 115, 32, 102, 108,
                                    117, 115, 104, 101, 100, 32, 116, 111, 32, 100, 105,
                                    115, 107>>),
                  break |-> FALSE, executed |-> << >>]
            ELSE IF ~query.parse.ok
            THEN [db |-> db,
                  response |-> Error(<<80, 97, 114, 115, 101, 32, 101, 114, 114, 111, 114,
                                       58, 32>> \o query.parse.err),
                  break |-> FALSE, executed |-> << >>]
            ELSE Batch(execute_all(db, query.parse.statements, ord, << >>, << >>))
    IN  Command(to_lowercase(query.text))

\* the session's end without the flush
session_end_no_flush(db, order) ==
    [db EXCEPT !.catalog_file = db_save_catalog(db, order)]

\* Server::run after handle_client returned, and Drop for Server: flush_all,
\* then save_catalog, their errors printed and dropped
session_end(db, order) ==
    LET Flushed(d1) == [d1 EXCEPT !.catalog_file = db_save_catalog(d1, order)]
    IN  Flushed([db EXCEPT !.bp = flush_all(db.bp)])

-----------------------------------------------------------------------------
(* SpecServer: Server::new and Server::run.  `handles` is the queue of the   *)
(* clients whose connection waits in the listener, `wrote_live` is <<c>>     *)
(* while handle_client serves client c and << >> while run waits in          *)
(* incoming(); `last` keeps the step: for a query its client, the response   *)
(* written, the statements parsed from it (kind and table) and the results   *)
(* of those that were executed.  A step goes from one                        *)
(* point where the server waits (for a connection, for a line) to the next.  *)
(* The pool of Database::new holds 100 pages and never evicts here, so the   *)
(* order of its HashMap is of no effect and one order stands for all.        *)

MaxClients == 2     \* clients that connect
MaxServerRows == 2  \* tuples stored by the statements of one behaviour

Clients == 1 .. MaxClients

\* CREATE TABLE t (id INT, name TEXT); CREATE TABLE z (); INSERT INTO t of
\* (7, 'x', TRUE) and of (7, 'x', TRUE), (NULL); INSERT INTO t and z of
\* ('END'); SELECT * FROM t and z; DROP TABLE t
ServerStatements ==
    {[kind |-> "CreateTable", table |-> <<116>>, columns |-> Columns(<<116>>)],
     [kind |-> "CreateTable", table |-> <<122>>, columns |-> << >>],
     [kind |-> "Insert", table |-> <<116>>, rows |-> <<RowExprs(1)>>],
     [kind |-> "Insert", table |-> <<116>>, rows |-> <<RowExprs(1), RowExprs(3)>>],
     [kind |-> "Insert", table |-> <<116>>, rows |-> <<RowExprs(6)>>],
     [kind |-> "Insert", table |-> <<122>>, rows |-> <<RowExprs(6)>>],
     [kind |-> "Query", table |-> <<116>>],
     [kind |-> "Query", table |-> <<122>>],
     [kind |-> "Drop", table |-> <<116>>]}

\* the lines a client sends: a command, a line that does not parse, one
\* statement, or two statements of which the first may fail; the empty line
\* is also what read_query returns at the end of the stream
Queries ==
    {[text |-> c, parse |-> [ok |-> FALSE, statements |-> << >>, err |-> <<120>>]]
        : c \in {<<101, 120, 105, 116>>, <<81, 117, 105, 116>>,
                 <<116, 97, 98, 108, 101, 115>>, <<102, 108, 117, 115, 104>>,
                 << >>, <<120>>}}
    \cup {[text |-> <<115, 113, 108>>,
           parse |-> [ok |-> TRUE, statements |-> <<st>>, err |-> << >>]]
             : st \in ServerStatements}
    \cup {[text |-> <<115, 113, 108>>,
           parse |-> [ok |-> TRUE, statements |-> <<st1, st2>>, err |-> << >>]]
             : st1 \in {st \in ServerStatements :
                            st.kind \in {"CreateTable", "Drop"} /\ st.table = <<116>>},
               st2 \in {st \in ServerStatements :
                            \/ st.kind = "CreateTable" /\ st.table = <<122>>
                            \/ st.kind = "Query" /\ st.table = <<116>>}}

\* the tuples stored in the pages 0 .. id of the pool bp
RECURSIVE Tuples(_, _)
Tuples(bp, id) ==
    IF id < 0 THEN 0 ELSE num_slots(PageIn(bp, id)) + Tuples(bp, id - 1)

server_unused == <<wrote, inserted, failed>>

\* Server::new on files that do not exist yet: Database::new and a listener
ServerInit ==
    /\ \E db \in {Database_new(<< >>, << >>)} :
          /\ file = db.bp.file
          /\ next_page_id = db.bp.next_page_id
          /\ pages = db.bp.pages
          /\ heap = db.bp.heap
          /\ capacity = db.bp.capacity
          /\ tables = db.tables
          /\ catalog_path = db.catalog_path
          /\ catalog_file = db.catalog_file
    /\ handles = << >>
    /\ wrote_live = << >>
    /\ wrote = << >>
    /\ inserted = << >>
    /\ failed = FALSE
    /\ last = [op |-> "new", id |-> 0, ok |-> TRUE]

\* a client connects; the listener queues the connection
ClientConnect ==
    \E c \in Clients :
        /\ wrote_live # <<c>>
        /\ \A i \in 1 .. Len(handles) : handles[i] # c
        /\ handles' = Append(handles, c)
        /\ last' = [op |-> "connect", id |-> c, ok |-> TRUE]
        /\ UNCHANGED <<file, next_page_id, pages, heap, capacity, tables, catalog_path,
                       catalog_file, wrote_live, server_unused>>

\* run: incoming() gives the next connection and handle_client starts on
\* it; when peer_addr() or try_clone() fails handle_client returns at once
\* and run goes on to flush and save
ServerAccept ==
    \E started \in BOOLEAN, order \in SaveOrders(DOMAIN tables) :
        /\ wrote_live = << >>
        /\ handles # << >>
        /\ handles' = Tail(handles)
        /\ wrote_live' = IF started THEN <<Head(handles)>> ELSE << >>
        /\ SetDB(IF started THEN DB ELSE session_end(DB, order))
        /\ last' = [op |-> "accept", id |-> Head(handles), ok |-> started]
        /\ UNCHANGED server_unused

\* handle_client: read_query gives a line (the empty line at the end of the
\* stream, or the read fails), the query is served and the response written
\* (or the write fails); when the loop ends run flushes and saves
ServerQuery ==
    \E query \in Queries, read_ok \in BOOLEAN, write_ok \in BOOLEAN :
    \E ord \in {CHOOSE o \in HashOrders(BP, MaxPages) : TRUE},
       order \in SaveOrders(DOMAIN tables) :
    \E r \in {IF read_ok /\ query.text # << >> THEN serve_query(DB, query, ord, order)
              ELSE [db |-> DB, break |-> TRUE, executed |-> << >>]} :
    \E ends \in {r.break \/ ~write_ok} :
    \E db \in {IF ends
               THEN session_end(r.db, CHOOSE o \in TableOrders(DOMAIN r.db.tables) : TRUE)
               ELSE r.db} :
        /\ wrote_live # << >>
        /\ read_ok \/ query.text = << >>
        /\ write_ok \/ (read_ok /\ query.text # << >>)
        /\ db.bp.next_page_id <= MaxPages
        /\ Tuples(db.bp, db.bp.next_page_id - 1) <= MaxServerRows
        /\ SetDB(db)
        /\ wrote_live' = IF ends THEN << >> ELSE wrote_live
        /\ last' = [op |-> "query", id |-> wrote_live[1], ok |-> ~ends,
                    executed |-> r.executed,
                    statements |-> IF read_ok
                                   THEN [i \in 1 .. Len(query.parse.statements) |->
                                            [kind |-> query.parse.statements[i].kind,
                                             table |-> query.parse.statements[i].table]]
                                   ELSE << >>,
                    response |-> IF "response" \in DOMAIN r /\ write_ok
                                 THEN <<r.response>> ELSE << >>]
        /\ UNCHANGED <<handles, server_unused>>

ServerNext ==
    \/ ClientConnect
    \/ ServerAccept
    \/ ServerQuery

SpecServer == ServerInit /\ [][ServerNext]_vars

C26_NoEndLineInContent ==
    (last.op = "query" /\ last.response # << >>) =>
        \A ls \in {split(last.response[1].content, CharNewline)} :
            \A i \in 1 .. Len(ls) : ls[i] # END_MARKER

\* the lines the stated format of SELECT * has for a schema and rows: the
\* names joined by TAB, 10 hyphens for each column, a line for each row with
\* its values (Long in base 10, Text as it is, Bool as true or false) joined
\* by TAB, and "(N rows)"
SelectLines(schema, rows) ==
    LET Fmt(v) == IF v.tag = "Long" THEN Decimal(v.n.lo)
                  ELSE IF v.tag = "Text" THEN v.s
                  ELSE IF v.b THEN <<116, 114, 117, 101>> ELSE <<102, 97, 108, 115, 101>>
    IN  <<join([i \in 1 .. Len(schema) |-> schema[i].name], <<CharTab>>),
          [i \in 1 .. 10 * Len(schema) |-> 45]>>
        \o [i \in 1 .. Len(rows) |->
                join([k \in 1 .. Len(rows[i]) |-> Fmt(rows[i][k])], <<CharTab>>)]
        \o <<(<<40>> \o Decimal(Len(rows)) \o <<32, 114, 111, 119, 115, 41>>)>>

-----------------------------------------------------------------------------
(* main.rs, run_interactive: the prompt's loop over the lines read.  `ios`  *)
(* gives, for each statement of a line, whether the catalog file can be     *)
(* written while it runs.                                                   *)

\* the loop `for stmt in statements` of run_interactive: each statement is
\* executed and its result printed, Ok or Err, and the loop goes on to the
\* next; returns [db, executed], executed the results (TRUE for Ok) in order
RECURSIVE run_statements(_, _, _, _, _)
run_statements(db, statements, ord, ios, executed) ==
    LET Executed(r) ==
            run_statements(r.db, Tail(statements), ord, Tail(ios), Append(executed, r.ok))
        Next1(stmt) ==
            Executed(execute(db, stmt, ord,
                        CHOOSE o \in TableOrders(DOMAIN db.tables
                            \cup (IF stmt.kind = "CreateTable" THEN {stmt.table} ELSE {})) :
                            TRUE,
                        Head(ios)))
    IN  IF statements = << >>
        THEN [db |-> db, executed |-> executed]
        ELSE Next1(Head(statements))

\* the arm Ok(line) of run_interactive's match; returns [db, break, executed],
\* break: the loop ends after this line
run_line(db, query, ord, ios) ==
    LET to_lowercase(str) ==
            [i \in 1 .. Len(str) |-> IF str[i] >= 65 /\ str[i] <= 90 THEN str[i] + 32
                                     ELSE str[i]]
        Batch(b) == [db |-> b.db, break |-> FALSE, executed |-> b.executed]
        Command(lower) ==
            IF lower = << >>
            THEN [db |-> db, break |-> FALSE, executed |-> << >>]
            ELSE IF lower = <<101, 120, 105, 116>> \/ lower = <<113, 117, 105, 116>>
            THEN [db |-> [db EXCEPT !.bp = flush_all(db.bp)], break |-> TRUE,
                  executed |-> << >>]
            ELSE IF lower = <<116, 97, 98, 108, 101, 115>>
            THEN [db |-> db, break |-> FALSE, executed |-> << >>]
            ELSE IF lower = <<102, 108, 117, 115, 104>>
            THEN [db |-> [db EXCEPT !.bp = flush_all(db.bp)], break |-> FALSE,
                  executed |-> << >>]
            ELSE IF ~query.parse.ok
            THEN [db |-> db, break |-> FALSE, executed |-> << >>]
            ELSE Batch(run_statements(db, query.parse.statements, ord, ios, << >>))
    IN  Command(to_lowercase(trim(query.text)))

\* the arms Err(..) of run_interactive's match, by the error of readline;
\* returns [db, break]
run_readline_error(db, err) ==
    IF err = "Interrupted" THEN [db |-> db, break |-> FALSE]
    ELSE IF err = "Eof" THEN [db |-> [db EXCEPT !.bp = flush_all(db.bp)], break |-> TRUE]
    ELSE [db |-> db, break |-> TRUE]

-----------------------------------------------------------------------------
(* SpecRepl: the program started without --server, on files that do not     *)
(* exist at first.  `wrote_live` is <<0>> while run_interactive's loop runs  *)
(* and << >> once it returned and its Database was dropped; the variables   *)
(* of the database then keep what the Database held when it was dropped.    *)
(* `last` keeps the step: for a line its statements (kind and table) and    *)
(* the results of those that were executed.                                 *)

MaxReplRows == 1  \* tuples stored by the statements of one behaviour

\* the lines read: those of Queries whose INSERT has one row that is stored
ReplQueries ==
    {q \in Queries :
        \A i \in 1 .. Len(q.parse.statements) :
            q.parse.statements[i].kind = "Insert" =>
                q.parse.statements[i].rows \in {<<RowExprs(1)>>, <<RowExprs(6)>>}}

ReadlineErrors == {"Interrupted", "Eof", "Other"}

\* whether the catalog file can be written, for the statements of one line
ReplIos == {<<a, a>> : a \in {"ok", "save_catalog"}}

repl_unused == <<handles, wrote, inserted, failed>>

ReplInit ==
    /\ \E db \in {Database_new(<< >>, << >>)} :
          /\ file = db.bp.file
          /\ next_page_id = db.bp.next_page_id
          /\ pages = db.bp.pages
          /\ heap = db.bp.heap
          /\ capacity = db.bp.capacity
          /\ tables = db.tables
          /\ catalog_path = db.catalog_path
          /\ catalog_file = db.catalog_file
    /\ handles = << >>
    /\ wrote_live = <<0>>
    /\ wrote = << >>
    /\ inserted = << >>
    /\ failed = FALSE
    /\ last = [op |-> "new", id |-> 0, ok |-> TRUE]

\* the loop ended: run_interactive returns and its Database is dropped
run_end(db, break) == IF break THEN Database_drop(db) ELSE db

\* readline returns a line: it is served; after exit or quit the loop ends
ReplLine ==
    \E query \in ReplQueries, ios \in ReplIos :
    \E ord \in {CHOOSE o \in HashOrders(BP, MaxPages) : TRUE} :
    \E r \in {run_line(DB, query, ord, ios)} :
        /\ wrote_live # << >>
        /\ r.db.bp.next_page_id <= MaxPages
        /\ Tuples(r.db.bp, r.db.bp.next_page_id - 1) <= MaxReplRows
        /\ SetDB(run_end(r.db, r.break))
        /\ wrote_live' = IF r.break THEN << >> ELSE wrote_live
        /\ last' = [op |-> "line", id |-> 0, ok |-> ~r.break,
                    executed |-> r.executed,
                    statements |-> [i \in 1 .. Len(query.parse.statements) |->
                                        [kind |-> query.parse.statements[i].kind,
                                         table |-> query.parse.statements[i].table]]]
        /\ UNCHANGED repl_unused

\* readline returns an error: ^C, the end of the input, or any other
ReplReadlineError ==
    \E err \in ReadlineErrors :
    \E r \in {run_readline_error(DB, err)} :
        /\ wrote_live # << >>
        /\ SetDB(run_end(r.db, r.break))
        /\ wrote_live' = IF r.break THEN << >> ELSE wrote_live
        /\ last' = [op |-> "readline_error", id |-> 0, ok |-> ~r.break, err |-> err]
        /\ UNCHANGED repl_unused

\* the program is started again on the files the run before left
ReplStart ==
    /\ wrote_live = << >>
    /\ SetDB(Database_new(file, catalog_file))
    /\ wrote_live' = <<0>>
    /\ last' = [op |-> "new", id |-> 0, ok |-> TRUE]
    /\ UNCHANGED repl_unused

ReplNext ==
    \/ ReplLine
    \/ ReplReadlineError
    \/ ReplStart

SpecRepl == ReplInit /\ [][ReplNext]_vars

\* C22: when the Database is torn down, in the prompt's loop as in the
\* server, every resident page is written to the database file and the
\* catalog is saved: once run_interactive has returned, the database file
\* holds every page that was resident and the catalog file holds the catalog
\* the Database held.
C22_TeardownFlushesAndSaves ==
    wrote_live = << >> =>
        /\ \A id \in DOMAIN pages : id < Len(file) /\ file[id + 1] = heap[pages[id]]
        /\ \E order \in TableOrders(DOMAIN tables) :
              catalog_file = save_catalog(tables, order)

\* C24: the statements of one line run in order and the first that fails
\* ends the line: of the statements executed for a line, none comes after
\* one that returned an error.
C24_FirstErrorStopsBatch ==
    [][ last'.op = "line" =>
            /\ Len(last'.executed) <= Len(last'.statements)
            /\ \A i \in 1 .. Len(last'.executed) - 1 : last'.executed[i]
      ]_vars

-----------------------------------------------------------------------------
(* Claims about what reaches the file, checked under SpecPool *)

\* C31: create_page takes the id the disk manager's counter holds and
\* advances the counter, installs an all-zero page under that id and writes
\* nothing of it: after the call the file does not hold the new page, and
\* the only page written is the one the call evicted.  In every step the
\* buffer of a page is written to the file only when the step evicts the
\* page or is flush_all with the page resident (a page the file did not hold
\* may appear in it as zeros when a page of a greater id is written).
C31_CreatePageWritesNothing ==
    [][ /\ last'.op = "create_page" =>
              /\ last'.id = next_page_id
              /\ next_page_id' = next_page_id + 1
              /\ last'.id \in DOMAIN pages'
              /\ heap'[pages'[last'.id]] = Page_new
              /\ Len(file') <= last'.id
              /\ \A id \in DOMAIN pages \ DOMAIN pages' :
                    file' = write_page(file, id, heap[pages[id]])
              /\ DOMAIN pages \subseteq DOMAIN pages' => file' = file
        /\ \A id \in PageIds :
              (/\ id < Len(file')
               /\ id >= Len(file) \/ file'[id + 1] # file[id + 1]) =>
                    \/ id \in DOMAIN pages \ DOMAIN pages'
                    \/ last'.op = "flush_all" /\ id \in DOMAIN pages
                    \/ /\ id >= Len(file)
                       /\ file'[id + 1] = Page_new
                       /\ \E j \in DOMAIN pages : j > id /\ j < Len(file')
      ]_vars

\* create_page evicted a page that holds the test byte, which is now in the
\* file, and the page it created is resident and not in the file
C31_Witness ==
    /\ last.op = "create_page"
    /\ last.id \in DOMAIN pages
    /\ heap[pages[last.id]] = Page_new
    /\ Len(file) >= 1
    /\ Len(file) <= last.id
    /\ \E id \in 0 .. (Len(file) - 1) : Byte(file[id + 1], 0) = TestByte

-----------------------------------------------------------------------------
(* SpecCatalog: Database::new on catalog files of one or two entries, whole *)
(* or damaged.  `wrote` keeps the entries the file was made of, in the      *)
(* order of the file: [table, metadata, damage].                            *)

\* how an entry is damaged: not at all; its table line has three fields; its
\* first_page_id or its column_count is no number; its last column line is
\* missing or has no separator; its text ends before the type of its last
\* column (the file was cut there when it is the last entry)
Damages == {"none", "fields", "first", "count", "no_column", "bad_column", "cut"}

EntryMetadata(table_name) ==
    IF table_name = <<116>>
    THEN [schema |-> Columns(table_name), first_page_id |-> 1, last_page_id |-> 2]
    ELSE [schema |-> Columns(table_name), first_page_id |-> 3, last_page_id |-> 3]

\* the lines of an entry of the file
EntryLines(e) ==
    LET ls == catalog_entry(e.table, e.metadata)
        n == Len(ls)
        Header(first, count) ==
            e.table \o <<CharPipe>> \o first \o <<CharPipe>>
                \o Decimal(e.metadata.last_page_id) \o count
        first == Decimal(e.metadata.first_page_id)
        count == <<CharPipe>> \o Decimal(Len(e.metadata.schema))
    IN  IF e.damage = "fields" THEN <<Header(first, << >>)>> \o Tail(ls)
        ELSE IF e.damage = "first" THEN <<Header(<<120>>, count)>> \o Tail(ls)
        ELSE IF e.damage = "count" THEN <<Header(first, <<CharPipe, 120>>)>> \o Tail(ls)
        ELSE IF e.damage = "no_column" THEN SubSeq(ls, 1, n - 1)
        ELSE IF e.damage = "bad_column"
        THEN [i \in 1 .. n |-> IF i = n THEN SelectSeq(ls[i], LAMBDA c : c # CharPipe)
                               ELSE ls[i]]
        ELSE ls

\* the text of an entry: its lines, each ended by a newline
EntryText(e) ==
    LET ls == EntryLines(e)
        text == concat([i \in 1 .. Len(ls) |-> ls[i] \o <<CharNewline>>])
    IN  IF e.damage = "cut" THEN SubSeq(text, 1, Len(text) - 6) ELSE text

CatalogText(entries) == concat([i \in 1 .. Len(entries) |-> EntryText(entries[i])])

CatalogEntries ==
    {[table |-> t, metadata |-> EntryMetadata(t), damage |-> d] : t \in TableNames, d \in Damages}

catalog_unused == <<handles, wrote_live, inserted, failed>>

\* a catalog file, and no database yet
CatalogInit ==
    /\ \E n \in 1 .. 2 : \E es \in [1 .. n -> CatalogEntries] :
          /\ \A i, j \in 1 .. n : es[i].table = es[j].table => i = j
          /\ wrote = es
          /\ catalog_file = CatalogText(es)
    /\ file = << >>
    /\ next_page_id = 0
    /\ pages = << >>
    /\ heap = << >>
    /\ capacity = DbCapacity
    /\ tables = << >>
    /\ catalog_path = catalog_path_of_db
    /\ handles = {}
    /\ wrote_live = << >>
    /\ inserted = << >>
    /\ failed = FALSE
    /\ last = [op |-> "none", id |-> 0, ok |-> TRUE]

\* Database::new: load_catalog reads the file
CatalogLoad ==
    /\ last.op = "none"
    /\ SetDB(Database_new(file, catalog_file))
    /\ last' = [op |-> "load", id |-> 0, ok |-> TRUE]
    /\ UNCHANGED <<wrote, catalog_unused>>

SpecCatalog == CatalogInit /\ [][CatalogLoad]_vars

\* C32: loading a catalog skips the entries that are partial or malformed:
\* an entry whose table line has not four fields with numbers for
\* first_page_id, last_page_id and column_count, or whose column lines are
\* missing or malformed, gives no table, and the tables loaded are those the
\* well-formed entries alone give.
C32_MalformedEntriesSkipped ==
    last.op = "load" =>
        tables = load_catalog(CatalogText(SelectSeq(wrote, LAMBDA e : e.damage = "none")))

-----------------------------------------------------------------------------
(* SpecBorrow: handle_create_table, insert_tuple and the page loop of       *)
(* handle_query taken one pool call and one page access at a time, on a     *)
(* pool from with_buffer_pool with one table, t.  `handles` is the set of   *)
(* the Rc locals in scope, [name, id, rc, stale, borrowed]: stale once the  *)
(* page was evicted after the Rc was obtained, borrowed while a Ref or      *)
(* RefMut of it lives.  `inserted` is the position of the statement:        *)
(* [pc, stmt, kind, current_page_id, new_page_id].  `last` keeps the step:  *)
(* a pool call, or an access to a page through an Rc.                       *)

MaxBorrowRows == 3  \* tuples stored in one behaviour

BorrowTable == <<116>>

\* let mut page = page_rc.borrow_mut(), and drop(page)
borrow_mut(h) == [h EXCEPT !.borrowed = TRUE]
drop_borrow(h) == [h EXCEPT !.borrowed = FALSE]

NewHandle(name, id, rc) ==
    [name |-> name, id |-> id, rc |-> rc, stale |-> FALSE, borrowed |-> FALSE]

TheHandle(name) == CHOOSE h \in handles : h.name = name

Goto(pc, current_page_id, new_page_id) ==
    inserted' = [inserted EXCEPT !.pc = pc, !.current_page_id = current_page_id,
                                 !.new_page_id = new_page_id]

Access(h) == [op |-> "access", id |-> h.id, ok |-> TRUE, name |-> h.name]

borrow_unused == <<wrote, wrote_live, failed>>
borrow_catalog == <<tables, catalog_path, catalog_file>>

BorrowInit ==
    /\ \E c \in 1 .. MaxCapacity :
        \E db \in {with_buffer_pool(BufferPool_new(<< >>, c))} :
          /\ file = db.bp.file
          /\ next_page_id = db.bp.next_page_id
          /\ pages = db.bp.pages
          /\ heap = db.bp.heap
          /\ capacity = db.bp.capacity
          /\ tables = db.tables
          /\ catalog_path = db.catalog_path
          /\ catalog_file = db.catalog_file
    /\ handles = {}
    /\ inserted = [pc |-> "idle", stmt |-> "none", kind |-> 0, current_page_id |-> 0,
                   new_page_id |-> 0]
    /\ last = [op |-> "new", id |-> 0, ok |-> TRUE]
    /\ wrote = << >>
    /\ wrote_live = << >>
    /\ failed = FALSE

\* handle_create_table: the table does not exist
StartCreateTable ==
    /\ inserted.pc = "idle"
    /\ BorrowTable \notin DOMAIN tables
    /\ inserted' = [inserted EXCEPT !.pc = "table_create", !.stmt = "create"]
    /\ last' = [op |-> "start", id |-> 0, ok |-> TRUE]
    /\ UNCHANGED <<file, next_page_id, pages, heap, capacity, handles, borrow_catalog,
                   borrow_unused>>

\* handle_create_table: create_page
StepTableCreate ==
    /\ inserted.pc = "table_create"
    /\ \E ord \in HashOrders(BP, 0) :
       \E c \in {create_page(BP, ord)} :
       \E hs \in {Age(handles, c.bp) \cup {NewHandle("page_rc", c.page_id, c.rc)}} :
           /\ SetBP(c.bp, hs)
           /\ handles' = hs
           /\ Goto("table_init", c.page_id, 0)
           /\ last' = [op |-> "create_page", id |-> c.page_id, ok |-> TRUE]
           /\ UNCHANGED <<borrow_catalog, borrow_unused>>

\* handle_create_table: slotted.init() through page_rc
StepTableInit ==
    /\ inserted.pc = "table_init"
    /\ \E h \in {TheHandle("page_rc")} :
           /\ SetBP(Store(BP, h.rc, init(Deref(BP, h.rc))), handles)
           /\ Goto("table_save", inserted.current_page_id, 0)
           /\ last' = Access(h)
           /\ UNCHANGED <<handles, borrow_catalog, borrow_unused>>

\* handle_create_table: the metadata is inserted, flush_all, save_catalog,
\* and the function returns
StepTableSave ==
    /\ inserted.pc = "table_save"
    /\ \E r \in {flush_and_save(
                   [DB EXCEPT !.tables = Put(tables, BorrowTable,
                           [schema |-> Columns(BorrowTable),
                            first_page_id |-> inserted.current_page_id,
                            last_page_id |-> inserted.current_page_id])],
                   <<BorrowTable>>, "ok")} :
           /\ SetDB(r.db)
           /\ handles' = {}
           /\ Goto("idle", 0, 0)
           /\ last' = [op |-> "return", id |-> 0, ok |-> r.ok]
           /\ UNCHANGED borrow_unused

\* handle_insert of one row of kind 1 or 2: insert_tuple is called with the
\* table's last_page_id
StartInsert ==
    /\ inserted.pc = "idle"
    /\ \E kind \in 1 .. 2 :
           /\ BorrowTable \in DOMAIN tables
           /\ next_page_id < MaxPages
           /\ Tuples(BP, next_page_id - 1) < MaxBorrowRows
           /\ inserted' = [pc |-> "fetch", stmt |-> "insert", kind |-> kind,
                           current_page_id |-> tables[BorrowTable].last_page_id,
                           new_page_id |-> 0]
           /\ last' = [op |-> "start", id |-> 0, ok |-> TRUE]
           /\ UNCHANGED <<file, next_page_id, pages, heap, capacity, handles, borrow_catalog,
                          borrow_unused>>

\* handle_query: the scan starts at the table's first_page_id
StartQuery ==
    /\ inserted.pc = "idle"
    /\ BorrowTable \in DOMAIN tables
    /\ inserted' = [pc |-> "fetch", stmt |-> "query", kind |-> 0,
                    current_page_id |-> tables[BorrowTable].first_page_id,
                    new_page_id |-> 0]
    /\ last' = [op |-> "start", id |-> 0, ok |-> TRUE]
    /\ UNCHANGED <<file, next_page_id, pages, heap, capacity, handles, borrow_catalog,
                   borrow_unused>>

\* the head of the loop of insert_tuple and of handle_query:
\* fetch_page(current_page_id), into page_rc; an error returns
StepFetch ==
    /\ inserted.pc = "fetch"
    /\ \E ord \in HashOrders(BP, 0) :
       \E f \in {fetch_page(BP, inserted.current_page_id, ord)} :
       \E hs \in {IF f.ok
                  THEN Age(handles, f.bp)
                           \cup {NewHandle("page_rc", inserted.current_page_id, f.rc)}
                  ELSE {}} :
           /\ SetBP(f.bp, hs)
           /\ handles' = hs
           /\ Goto(IF ~f.ok THEN "idle" ELSE IF inserted.stmt = "insert" THEN "add" ELSE "scan",
                   inserted.current_page_id, 0)
           /\ last' = [op |-> "fetch_page", id |-> inserted.current_page_id, ok |-> f.ok]
           /\ UNCHANGED <<borrow_catalog, borrow_unused>>

\* insert_tuple: page_rc.borrow_mut() and add_tuple; Ok returns the page;
\* else with no next page the borrow is dropped and the Rc kept, and with a
\* next page the loop's body ends and the loop goes on from that page
StepAdd ==
    /\ inserted.pc = "add"
    /\ \E h \in {borrow_mut(TheHandle("page_rc"))} :
       \E at \in {add_tuple(Deref(BP, h.rc), to_bytes(RowValues(inserted.kind)))},
          next \in {next_page_id_of(Deref(BP, h.rc))} :
       \E hs \in {IF ~at.ok /\ next = NO_NEXT_PAGE THEN {drop_borrow(h)} ELSE {}} :
           /\ SetBP(IF at.ok THEN Store(BP, h.rc, at.page) ELSE BP, hs)
           /\ handles' = hs
           /\ Goto(IF at.ok THEN "insert_save"
                   ELSE IF next = NO_NEXT_PAGE THEN "create" ELSE "fetch",
                   IF at.ok \/ next = NO_NEXT_PAGE THEN inserted.current_page_id ELSE next, 0)
           /\ last' = Access(h)
           /\ UNCHANGED <<borrow_catalog, borrow_unused>>

\* insert_tuple: create_page, into new_page_rc
StepCreate ==
    /\ inserted.pc = "create"
    /\ \E ord \in HashOrders(BP, 0) :
       \E c \in {create_page(BP, ord)} :
       \E hs \in {Age(handles, c.bp) \cup {NewHandle("new_page_rc", c.page_id, c.rc)}} :
           /\ SetBP(c.bp, hs)
           /\ handles' = hs
           /\ Goto("init", inserted.current_page_id, c.page_id)
           /\ last' = [op |-> "create_page", id |-> c.page_id, ok |-> TRUE]
           /\ UNCHANGED <<borrow_catalog, borrow_unused>>

\* insert_tuple: init and add_tuple through new_page_rc; an error returns
StepInit ==
    /\ inserted.pc = "init"
    /\ \E h \in {TheHandle("new_page_rc")} :
       \E np \in {add_tuple(init(Deref(BP, h.rc)), to_bytes(RowValues(inserted.kind)))} :
           /\ SetBP(Store(BP, h.rc, np.page), IF np.ok THEN handles ELSE {})
           /\ handles' = IF np.ok THEN handles ELSE {}
           /\ Goto(IF np.ok THEN "refetch" ELSE "idle", inserted.current_page_id,
                   inserted.new_page_id)
           /\ last' = Access(h)
           /\ UNCHANGED <<borrow_catalog, borrow_unused>>

\* insert_tuple: fetch_page(current_page_id) again, into the inner page_rc
StepRefetch ==
    /\ inserted.pc = "refetch"
    /\ \E ord \in HashOrders(BP, 0) :
       \E f \in {fetch_page(BP, inserted.current_page_id, ord)} :
       \E hs \in {IF f.ok
                  THEN Age(handles, f.bp)
                           \cup {NewHandle("link_page_rc", inserted.current_page_id, f.rc)}
                  ELSE {}} :
           /\ SetBP(f.bp, hs)
           /\ handles' = hs
           /\ Goto(IF f.ok THEN "link" ELSE "idle", inserted.current_page_id,
                   inserted.new_page_id)
           /\ last' = [op |-> "fetch_page", id |-> inserted.current_page_id, ok |-> f.ok]
           /\ UNCHANGED <<borrow_catalog, borrow_unused>>

\* the link written through the Rc the loop's head fetched
StepLinkOuter ==
    /\ inserted.pc = "link"
    /\ \E h \in {TheHandle("page_rc")} :
           /\ SetBP(Store(BP, h.rc, set_next_page_id(Deref(BP, h.rc), inserted.new_page_id)),
                    {})
           /\ handles' = {}
           /\ Goto("insert_save", inserted.new_page_id, 0)
           /\ last' = Access(h)
           /\ UNCHANGED <<borrow_catalog, borrow_unused>>

\* insert_tuple: set_next_page_id through the inner page_rc, and the new
\* page's id is returned
StepLink ==
    /\ inserted.pc = "link"
    /\ \E h \in {TheHandle("link_page_rc")} :
           /\ SetBP(Store(BP, h.rc, set_next_page_id(Deref(BP, h.rc), inserted.new_page_id)),
                    {})
           /\ handles' = {}
           /\ Goto("insert_save", inserted.new_page_id, 0)
           /\ last' = Access(h)
           /\ UNCHANGED <<borrow_catalog, borrow_unused>>

\* handle_insert after insert_tuple returned Ok: last_page_id is stored,
\* flush_all, save_catalog
StepInsertSave ==
    /\ inserted.pc = "insert_save"
    /\ \E r \in {flush_and_save(
                   [DB EXCEPT !.tables[BorrowTable].last_page_id = inserted.current_page_id],
                   <<BorrowTable>>, "ok")} :
           /\ SetDB(r.db)
           /\ handles' = {}
           /\ Goto("idle", 0, 0)
           /\ last' = [op |-> "return", id |-> 0, ok |-> r.ok]
           /\ UNCHANGED borrow_unused

\* handle_insert after insert_tuple returned Ok: the statement has a further
\* row, of kind 1 or 2, and insert_tuple is called with the page returned
StepNextRow ==
    /\ inserted.pc = "insert_save"
    /\ \E kind \in 1 .. 2 :
           /\ next_page_id < MaxPages
           /\ Tuples(BP, next_page_id - 1) < MaxBorrowRows
           /\ inserted' = [inserted EXCEPT !.pc = "fetch", !.kind = kind]
           /\ last' = [op |-> "start", id |-> 0, ok |-> TRUE]
           /\ UNCHANGED <<file, next_page_id, pages, heap, capacity, handles,
                          borrow_catalog, borrow_unused>>

\* handle_insert after insert_tuple returned Ok: the statement has a further
\* row, for which expr_to_value returns an error, and the statement with it
StepRowFails ==
    /\ inserted.pc = "insert_save"
    /\ Goto("idle", 0, 0)
    /\ last' = [op |-> "return", id |-> 0, ok |-> FALSE]
    /\ UNCHANGED <<file, next_page_id, pages, heap, capacity, handles, borrow_catalog,
                   borrow_unused>>

\* handle_query: page_rc.borrow(), the copy of the page, its tuples and its
\* next_page_id; the loop's body ends, and the loop with the last page
StepScan ==
    /\ inserted.pc = "scan"
    /\ \E h \in {borrow_mut(TheHandle("page_rc"))} :
       \E next \in {next_page_id_of(Deref(BP, h.rc))} :
           /\ handles' = {}
           /\ SetBP(BP, {})
           /\ Goto(IF next = NO_NEXT_PAGE THEN "idle" ELSE "fetch",
                   IF next = NO_NEXT_PAGE THEN 0 ELSE next, 0)
           /\ last' = Access(h)
           /\ UNCHANGED <<borrow_catalog, borrow_unused>>

BorrowNext ==
    \/ StartCreateTable
    \/ StepTableCreate
    \/ StepTableInit
    \/ StepTableSave
    \/ StartInsert
    \/ StartQuery
    \/ StepFetch
    \/ StepAdd
    \/ StepCreate
    \/ StepInit
    \/ StepRefetch
    \/ StepLink
    \/ StepInsertSave
    \/ StepNextRow
    \/ StepRowFails
    \/ StepScan

SpecBorrow == BorrowInit /\ [][BorrowNext]_vars

\* C33: in CREATE TABLE, INSERT and SELECT, for every capacity of the pool
\* from 1 on: no fetch_page or create_page evicts a page of which a borrow is
\* active, and every read or write of a page goes through an Rc that the
\* pool still holds for that page: the page was not evicted since the Rc
\* was obtained, and no fetch_page or create_page was called between the
\* call that returned the Rc and the access.
C33_NoEvictWhileBorrowed ==
    [][ /\ last'.op \in {"fetch_page", "create_page"} =>
              \A h \in handles : h.borrowed => h.id \in DOMAIN pages'
        /\ last'.op = "access" =>
              /\ \E h \in handles :
                    /\ h.name = last'.name
                    /\ ~h.stale
                    /\ h.id \in DOMAIN pages
                    /\ pages[h.id] = h.rc
              /\ last.op \in {"fetch_page", "create_page"}
              /\ last.ok
              /\ last.id = last'.id
      ]_vars

\* with a pool of one page, the old tail is linked to the new page through
\* the Rc of the second fetch, while the Rc of the first, whose page
\* create_page evicted, is still in scope
C33_Witness ==
    /\ capacity = 1
    /\ inserted.pc = "link"
    /\ \E h \in handles : h.name = "page_rc" /\ h.stale
    /\ \E h \in handles : h.name = "link_page_rc" /\ ~h.stale /\ pages[h.id] = h.rc

\* C38: after flush_all the file holds as many pages as the disk manager's
\* next_page_id says, so DiskManager::open on the file starts from the same
\* next_page_id and the first create_page of the next session returns an id
\* that no create_page returned before.
C38_FileLengthAfterFlush ==
    last.op = "flush_all" =>
        /\ Len(file) = next_page_id
        /\ DiskManager_open(file) = next_page_id
        /\ \A bp \in {BufferPool_new(file, capacity)} : \A ord \in HashOrders(bp, 0) :
              create_page(bp, ord).page_id = next_page_id

\* flush_all with two pages allocated, of which page 0 was evicted before
\* and holds the test byte in the file
C38_Witness ==
    /\ last.op = "flush_all"
    /\ next_page_id = 2
    /\ DOMAIN pages = {1}
    /\ Byte(file[1], 0) = TestByte

-----------------------------------------------------------------------------
(* Claims about the pages' contents and the chains, checked under Spec *)

\* the logical content of page id in the pool bp: its buffer when it is
\* resident, else its image in the file, if the file holds one
LogicalContent(bp, id) ==
    IF id \in DOMAIN bp.pages THEN [there |-> TRUE, page |-> bp.heap[bp.pages[id]]]
    ELSE IF id >= 0 /\ id < Len(bp.file) THEN [there |-> TRUE, page |-> bp.file[id + 1]]
    ELSE [there |-> FALSE, page |-> Page_new]

\* the pool bp2 gives every page but `new` the logical content it has now
SameContent(bp2, new) ==
    \A id \in 0 .. MaxPages : id # new => LogicalContent(bp2, id) = LogicalContent(BP, id)

C35_LinksPointForward ==
    /\ \A id \in 0 .. (next_page_id - 1) :
          \A next \in {next_page_id_of(PageIn(BP, id))} :
              next # NO_NEXT_PAGE => next > id /\ next < next_page_id
    /\ \A t \in DOMAIN tables : \A ord \in HashOrders(BP, MaxPages) :
          /\ ~handle_query(DB, t, ord).loops
          /\ \A k \in 1 .. 2 :
                ~insert_tuple(BP, tables[t].first_page_id, tables[t].last_page_id,
                              to_bytes(RowValues(k)), ord).loops

\* two tables whose pages alternate: page 0 of one table is linked to page 2
\* over page 1 of the other
C35_Witness ==
    /\ next_page_id = 3
    /\ next_page_id_of(PageIn(BP, 0)) = 2
    /\ next_page_id_of(PageIn(BP, 1)) = NO_NEXT_PAGE
    /\ \E t, u \in DOMAIN tables :
          tables[t].first_page_id = 0 /\ tables[u].first_page_id = 1

\* C36: in every state the chains of two different tables share no page, and
\* no page is the next page of two pages.
C36_ChainsDisjoint ==
    /\ \A t, u \in DOMAIN tables :
          t # u =>
            \A ct \in {Chain(BP, next_page_id, tables[t].first_page_id, Fuel)},
               cu \in {Chain(BP, next_page_id, tables[u].first_page_id, Fuel)} :
                  /\ ct # << >>
                  /\ cu # << >>
                  /\ \A i \in 1 .. Len(ct), j \in 1 .. Len(cu) : ct[i] # cu[j]
    /\ \A a, b \in 0 .. (next_page_id - 1) :
          (a # b /\ next_page_id_of(PageIn(BP, a)) # NO_NEXT_PAGE) =>
              next_page_id_of(PageIn(BP, a)) # next_page_id_of(PageIn(BP, b))

\* two tables with rows, one of them with a chain of two pages
C36_Witness ==
    /\ next_page_id = 3
    /\ \E t, u \in DOMAIN tables :
          /\ t # u
          /\ Len(Chain(BP, next_page_id, tables[t].first_page_id, Fuel)) = 2
          /\ Len(inserted[t]) >= 2
          /\ Len(inserted[u]) >= 1

-----------------------------------------------------------------------------
(* A claim about the order of flush and save, checked under SpecInsert *)

\* the step wrote the catalog file at its end: a CREATE TABLE or INSERT that
\* returned Ok; in the server, a session that ended, or a query whose last
\* CREATE TABLE or INSERT returned Ok with nothing but SELECTs after it
CatalogWritten(l) ==
    \/ l.op = "execute" /\ l.ok /\ l.kind \in {"CreateTable", "Insert"}
    \/ l.op \in {"query", "accept"} /\ ~l.ok
    \/ /\ l.op = "query"
       /\ \E i \in 1 .. Len(l.executed) :
             /\ l.executed[i]
             /\ l.statements[i].kind \in {"CreateTable", "Insert"}
             /\ \A j \in (i + 1) .. Len(l.executed) : l.statements[j].kind = "Query"

\* C37: whenever the catalog file has been written, every page that a table
\* of the file refers to as first_page_id or last_page_id, and every page of
\* the chain from its first_page_id, is in the database file with the
\* contents it has in the pool.
C37_PagesFlushedBeforeCatalog ==
    [][ (CatalogWritten(last') /\ catalog_path # << >>) =>
            \A tbls \in {load_catalog(catalog_file')} :
            \A t \in DOMAIN tbls :
            \A c \in {Chain(BP', next_page_id', tbls[t].first_page_id, Fuel)} :
            \A id \in {tbls[t].first_page_id, tbls[t].last_page_id}
                        \cup {c[i] : i \in 1 .. Len(c)} :
                /\ id < Len(file')
                /\ id \in DOMAIN pages' => file'[id + 1] = heap'[pages'[id]]
      ]_vars

\* an INSERT of two rows has added two pages to the chain of t and has saved
\* the catalog with the last of them as last_page_id
C37_Witness ==
    /\ last.op = "execute" /\ last.ok /\ last.kind = "Insert"
    /\ catalog_path # << >>
    /\ Len(last.trace) = 2
    /\ Len(Chain(BP, next_page_id, tables[last.table].first_page_id, Fuel)) = 3
    /\ load_catalog(catalog_file)[last.table].last_page_id = 2
    /\ Len(file) = 3

-----------------------------------------------------------------------------
(* A claim about INSERT statements that fail part-way, checked under         *)
(* SpecInsert                                                                *)

\* how often the row `values` is among the rows
Times(rows, values) == Cardinality({i \in 1 .. Len(rows) : rows[i] = values})

\* C39: when an INSERT into an existing table fails at row k (NULL, a number
\* that is no i64, or a tuple too large), the catalog entries are those of
\* before the statement, every page that took one of the rows 1..k-1 is in
\* the table's chain, and SELECT * returns the rows it returned before the
\* statement and the rows 1..k-1 besides.
C39_FailedInsertKeepsEarlierRows ==
    [][ (last'.kind = "Insert" /\ last'.table \in DOMAIN tables /\ ~last'.ok) =>
          \A kept \in {[i \in 1 .. Len(last'.trace) |-> RowValues(last'.kinds[i])]} :
          \A c \in {Chain(BP', next_page_id', tables[last'.table].first_page_id, Fuel)} :
            /\ Len(last'.trace) < Len(last'.kinds)
            /\ tables' = tables
            /\ \A i \in 1 .. Len(last'.trace) :
                  \E j \in 1 .. Len(c) : c[j] = last'.trace[i].to
            /\ \A ord \in HashOrders(BP, MaxPages) : \A ord2 \in HashOrders(BP', MaxPages) :
               \A q \in {handle_query(DB, last'.table, ord)} :
               \A q2 \in {handle_query(DB', last'.table, ord2)} :
                  /\ q.ok /\ q2.ok
                  /\ Len(q2.rows) = Len(q.rows) + Len(kept)
                  /\ \A j \in 1 .. Len(q2.rows) :
                        Times(q2.rows, q2.rows[j])
                          = Times(q.rows, q2.rows[j]) + Times(kept, q2.rows[j])
      ]_vars

\* an INSERT whose first row went to a page newly linked after the page of
\* the catalog's last_page_id, and whose second row failed
C39_Witness ==
    /\ last.op = "execute" /\ last.kind = "Insert" /\ ~last.ok
    /\ last.table \in DOMAIN tables
    /\ Len(last.trace) = 1
    /\ last.trace[1].to # last.trace[1].from
    /\ tables[last.table].last_page_id = last.trace[1].from
    /\ next_page_id_of(PageIn(BP, last.trace[1].from)) = last.trace[1].to
    /\ \A ord \in HashOrders(BP, MaxPages) :
          \E q \in {handle_query(DB, last.table, ord)} :
              q.ok /\ \E j \in 1 .. Len(q.rows) : q.rows[j] = RowValues(2)

-----------------------------------------------------------------------------
(* A claim about a fetch_page that fails, checked under SpecPool *)

=============================================================================
